---- MODULE Spec2Model ----
(***************************************************************************)
(* A model of the Tetris clock of src/circuitpython/code.py: the digit     *)
(* scripts, the shape rasteriser, the per-slot falling-block state machine *)
(* (set_time / draw_numbers), the frame buffer, the retrying time sync and *)
(* the scheduling loop of TetrisClock.run.                                 *)
(***************************************************************************)
EXTENDS Integers, Sequences, FiniteSets, TLC

(***************************************************************************)
(* Program constants.                                                      *)
(***************************************************************************)
DISPLAY_WIDTH == 64
DISPLAY_HEIGHT == 32
SCALE == 2
COLOR_BLACK == 8
COLOR_WHITE == 3
TETRIS_DISTANCE_BETWEEN_DIGITS == 7
TETRIS_Y_DROP_DEFAULT == 16
TIME_SYNC_RETRIES == 3
TIME_SYNC_RETRY_DELAY == 5
DAILY_RECONNECT_HOUR == 2
DAILY_RECONNECT_MINUTE == 1
NUM_SLOTS == 6
SIZE_OF_VALUE == 4
X_POS == 2
Y_FINISH == 26
AMPM_X == 55
AMPM_Y == 2

(***************************************************************************)
(* The digit scripts.  A step is <<blocktype, color, x_pos, y_stop,        *)
(* num_rot>>.                                                              *)
(***************************************************************************)
NUM_0 ==
  << <<2, 5, 4, 16, 0>>, <<4, 7, 2, 16, 1>>, <<3, 4, 0, 16, 1>>, <<6, 6, 1, 16, 1>>,
     <<5, 1, 4, 14, 0>>, <<6, 6, 0, 13, 3>>, <<5, 1, 4, 12, 0>>, <<5, 1, 0, 11, 0>>,
     <<6, 6, 4, 10, 1>>, <<6, 6, 0, 9, 1>>, <<5, 1, 1, 8, 1>>, <<2, 5, 3, 8, 3>> >>

NUM_1 ==
  << <<2, 5, 4, 16, 0>>, <<3, 4, 4, 15, 1>>, <<3, 4, 5, 13, 3>>, <<2, 5, 4, 11, 2>>,
     <<0, 0, 4, 8, 0>> >>

NUM_2 ==
  << <<0, 0, 4, 16, 0>>, <<3, 4, 0, 16, 1>>, <<1, 2, 1, 16, 3>>, <<1, 2, 1, 15, 0>>,
     <<3, 4, 1, 12, 2>>, <<1, 2, 0, 12, 1>>, <<2, 5, 3, 12, 3>>, <<0, 0, 4, 10, 0>>,
     <<3, 4, 1, 8, 0>>, <<2, 5, 3, 8, 3>>, <<1, 2, 0, 8, 1>> >>

NUM_3 ==
  << <<1, 2, 3, 16, 3>>, <<2, 5, 0, 16, 1>>, <<3, 4, 1, 15, 2>>, <<0, 0, 4, 14, 0>>,
     <<3, 4, 1, 12, 2>>, <<1, 2, 0, 12, 1>>, <<3, 4, 5, 12, 3>>, <<2, 5, 3, 11, 0>>,
     <<3, 4, 1, 8, 0>>, <<1, 2, 0, 8, 1>>, <<2, 5, 3, 8, 3>> >>

NUM_4 ==
  << <<0, 0, 4, 16, 0>>, <<0, 0, 4, 14, 0>>, <<3, 4, 1, 12, 0>>, <<1, 2, 0, 12, 1>>,
     <<2, 5, 0, 10, 0>>, <<2, 5, 3, 12, 3>>, <<3, 4, 4, 10, 3>>, <<2, 5, 0, 9, 2>>,
     <<3, 4, 5, 10, 1>> >>

NUM_5 ==
  << <<0, 0, 0, 16, 0>>, <<2, 5, 2, 16, 1>>, <<2, 5, 3, 15, 0>>, <<3, 4, 5, 16, 1>>,
     <<3, 4, 1, 12, 0>>, <<1, 2, 0, 12, 1>>, <<2, 5, 3, 12, 3>>, <<0, 0, 0, 10, 0>>,
     <<3, 4, 1, 8, 2>>, <<1, 2, 0, 8, 1>>, <<2, 5, 3, 8, 3>> >>

NUM_6 ==
  << <<2, 5, 0, 16, 1>>, <<5, 1, 2, 16, 1>>, <<6, 6, 0, 15, 3>>, <<6, 6, 4, 16, 3>>,
     <<5, 1, 4, 14, 0>>, <<3, 4, 1, 12, 2>>, <<2, 5, 0, 13, 2>>, <<3, 4, 2, 11, 0>>,
     <<0, 0, 0, 10, 0>>, <<3, 4, 1, 8, 0>>, <<1, 2, 0, 8, 1>>, <<2, 5, 3, 8, 3>> >>

NUM_7 ==
  << <<0, 0, 4, 16, 0>>, <<1, 2, 4, 14, 0>>, <<3, 4, 5, 13, 1>>, <<2, 5, 4, 11, 2>>,
     <<3, 4, 1, 8, 2>>, <<2, 5, 3, 8, 3>>, <<1, 2, 0, 8, 1>> >>

NUM_8 ==
  << <<3, 4, 1, 16, 0>>, <<6, 6, 0, 16, 1>>, <<3, 4, 5, 16, 1>>, <<1, 2, 2, 15, 3>>,
     <<4, 7, 0, 14, 0>>, <<1, 2, 1, 12, 3>>, <<6, 6, 4, 13, 1>>, <<2, 5, 0, 11, 1>>,
     <<4, 7, 0, 10, 0>>, <<4, 7, 4, 11, 0>>, <<5, 1, 0, 8, 1>>, <<5, 1, 2, 8, 1>>,
     <<1, 2, 4, 9, 2>> >>

NUM_9 ==
  << <<0, 0, 0, 16, 0>>, <<3, 4, 2, 16, 0>>, <<1, 2, 2, 15, 3>>, <<1, 2, 4, 15, 2>>,
     <<3, 4, 1, 12, 2>>, <<3, 4, 5, 12, 3>>, <<5, 1, 0, 12, 0>>, <<1, 2, 2, 11, 3>>,
     <<5, 1, 4, 9, 0>>, <<6, 6, 0, 10, 1>>, <<5, 1, 0, 8, 1>>, <<6, 6, 2, 8, 2>> >>

\* NUMBERS[d + 1] is the script of digit d (the source's list is 0-based).
NUMBERS == <<NUM_0, NUM_1, NUM_2, NUM_3, NUM_4, NUM_5, NUM_6, NUM_7, NUM_8, NUM_9>>

\* NUMBERS[num]: a Python list index, so a negative num counts from the end.
fall_data(num) == NUMBERS[IF num < 0 THEN num + Len(NUMBERS) + 1 ELSE num + 1]
num_blocks(num) == Len(fall_data(num))
\* fall_data[i] with the source's 0-based index i
block_at(num, i) == fall_data(num)[i + 1]
blocktype_of(block) == block[1]
color_of(block) == block[2]
bx_of(block) == block[3]
y_stop_of(block) == block[4]
num_rot_of(block) == block[5]

(***************************************************************************)
(* The frame buffer and the shape rasteriser.                              *)
(***************************************************************************)
\* The frame buffer is indexed by x + y * DISPLAY_WIDTH, the linear index of
\* displayio.Bitmap's cell [x, y].
Cells == 0 .. (DISPLAY_WIDTH * DISPLAY_HEIGHT - 1)
cell(x, y) == x + y * DISPLAY_WIDTH

\* The range check without its vertical half.
in_range_columns_only(px, py) ==
  0 <= px /\ px < DISPLAY_WIDTH

\* "if 0 <= px < DISPLAY_WIDTH and 0 <= py < DISPLAY_HEIGHT"
in_range(px, py) ==
  /\ 0 <= px /\ px < DISPLAY_WIDTH
  /\ 0 <= py /\ py < DISPLAY_HEIGHT

\* The cells among the pixels pts (pairs <<px, py>>) that pass the range check.
clip(pts) == { cell(p[1], p[2]) : p \in { q \in pts : in_range(q[1], q[2]) } }

\* draw_block: the cells a scaled block at (x, y) writes.
draw_block(x, y, scale) ==
  clip({ <<x + dx, y + dy>> : dx \in 0 .. scale - 1, dy \in 0 .. scale - 1 })

\* The unit offsets <<dx, dy>> of the blocks of a shape: the block is drawn at
\* (x_pos + dx * scale, y_pos - dy * scale).
shape_offsets(blocktype, num_rot) ==
  CASE blocktype = 0 -> { <<0, 0>>, <<1, 0>>, <<0, 1>>, <<1, 1>> }
    [] blocktype = 1 ->
         IF num_rot = 0 THEN { <<0, 0>>, <<1, 0>>, <<0, 1>>, <<0, 2>> }
         ELSE IF num_rot = 1 THEN { <<0, 0>>, <<0, 1>>, <<1, 1>>, <<2, 1>> }
         ELSE IF num_rot = 2 THEN { <<1, 0>>, <<1, 1>>, <<1, 2>>, <<0, 2>> }
         ELSE { <<0, 0>>, <<1, 0>>, <<2, 0>>, <<2, 1>> }
    [] blocktype = 2 ->
         IF num_rot = 0 THEN { <<0, 0>>, <<1, 0>>, <<1, 1>>, <<1, 2>> }
         ELSE IF num_rot = 1 THEN { <<0, 0>>, <<1, 0>>, <<2, 0>>, <<0, 1>> }
         ELSE IF num_rot = 2 THEN { <<0, 0>>, <<0, 1>>, <<0, 2>>, <<1, 2>> }
         ELSE { <<0, 1>>, <<1, 1>>, <<2, 1>>, <<2, 0>> }
    [] blocktype = 3 ->
         IF num_rot = 0 \/ num_rot = 2
         THEN { <<0, 0>>, <<1, 0>>, <<2, 0>>, <<3, 0>> }
         ELSE { <<0, 0>>, <<0, 1>>, <<0, 2>>, <<0, 3>> }
    [] blocktype = 4 ->
         IF num_rot = 0 \/ num_rot = 2
         THEN { <<1, 0>>, <<0, 1>>, <<1, 1>>, <<0, 2>> }
         ELSE { <<0, 0>>, <<1, 0>>, <<1, 1>>, <<2, 1>> }
    [] blocktype = 5 ->
         IF num_rot = 0 \/ num_rot = 2
         THEN { <<0, 0>>, <<0, 1>>, <<1, 1>>, <<1, 2>> }
         ELSE { <<1, 0>>, <<2, 0>>, <<0, 1>>, <<1, 1>> }
    [] blocktype = 6 ->
         IF num_rot = 0 THEN { <<0, 0>>, <<1, 0>>, <<2, 0>>, <<1, 1>> }
         ELSE IF num_rot = 1 THEN { <<0, 0>>, <<0, 1>>, <<0, 2>>, <<1, 1>> }
         ELSE IF num_rot = 2 THEN { <<1, 0>>, <<0, 1>>, <<1, 1>>, <<2, 1>> }
         ELSE { <<1, 0>>, <<0, 1>>, <<1, 1>>, <<1, 2>> }
    [] blocktype = 7 ->
         IF num_rot = 0 THEN { <<0, 0>>, <<1, 0>>, <<0, 1>> }
         ELSE IF num_rot = 1 THEN { <<0, 0>>, <<0, 1>>, <<1, 1>> }
         ELSE IF num_rot = 2 THEN { <<1, 0>>, <<1, 1>>, <<0, 1>> }
         ELSE { <<0, 0>>, <<1, 0>>, <<1, 1>> }
    [] OTHER -> {}

\* draw_shape: the cells a shape anchored at (x_pos, y_pos) writes.
draw_shape(blocktype, x_pos, y_pos, num_rot, scale) ==
  UNION { draw_block(x_pos + o[1] * scale, y_pos - o[2] * scale, scale) :
            o \in shape_offsets(blocktype, num_rot) }

\* The separator with its upper dot only.
colon_cells_upper_dot(x, y) ==
  LET colon_x == x + (TETRIS_DISTANCE_BETWEEN_DIGITS * 2 * SCALE)
      colon_size == 2 * SCALE
  IN  clip({ <<colon_x + dx, y + (8 * SCALE) + dy>> :
               dx \in 0 .. colon_size - 1, dy \in 0 .. colon_size - 1 })

\* The two dots of the separator: the cells draw_numbers and draw_colon write.
colon_cells(x, y) ==
  LET colon_x == x + (TETRIS_DISTANCE_BETWEEN_DIGITS * 2 * SCALE)
      colon_size == 2 * SCALE
      dot(y0) == clip({ <<colon_x + dx, y0 + dy>> :
                          dx \in 0 .. colon_size - 1, dy \in 0 .. colon_size - 1 })
  IN  dot(y + (8 * SCALE)) \cup dot(y + (12 * SCALE))

\* The 3x5 (M: 5x5) font of draw_ampm.
letter_a == { <<1, 0>>, <<0, 1>>, <<2, 1>>, <<0, 2>>, <<1, 2>>, <<2, 2>>,
              <<0, 3>>, <<2, 3>>, <<0, 4>>, <<2, 4>> }
letter_m == { <<0, 0>>, <<4, 0>>, <<0, 1>>, <<1, 1>>, <<3, 1>>, <<4, 1>>,
              <<0, 2>>, <<2, 2>>, <<4, 2>>, <<0, 3>>, <<4, 3>>, <<0, 4>>, <<4, 4>> }
letter_p == { <<0, 0>>, <<1, 0>>, <<2, 0>>, <<0, 1>>, <<2, 1>>,
              <<0, 2>>, <<1, 2>>, <<2, 2>>, <<0, 3>>, <<0, 4>> }

\* draw_ampm: the cells the AM/PM glyph writes ("" writes nothing).
ampm_cells(ampm, x, y) ==
  IF ampm = "" THEN {}
  ELSE LET first_letter == IF ampm = "AM" THEN letter_a ELSE letter_p
           m_offset == 4
       IN  clip({ <<x + o[1], y + o[2]>> : o \in first_letter }
                  \cup { <<x + m_offset + o[1], y + o[2]>> : o \in letter_m })

\* displayio.Bitmap(DISPLAY_WIDTH, DISPLAY_HEIGHT, ...): every cell starts at
\* palette index 0.
new_bitmap == [c \in Cells |-> 0]

\* A frame buffer with every cell at the background colour (clear_display).
clear_display == [c \in Cells |-> COLOR_BLACK]

\* Writing colour col to the cells cs of a partial buffer: later writes win.
paint(part, cs, col) == [c \in cs |-> col] @@ part

\* The buffer bm overwritten by the partial buffer part.
overwrite(bm, part) ==
  LET written == DOMAIN part
  IN  [c \in Cells |-> IF c \in written THEN part[c] ELSE bm[c]]

(***************************************************************************)
(* The per-slot animation state machine.                                   *)
(***************************************************************************)
Slots == 0 .. NUM_SLOTS - 1
Digits == 0 .. 9
DigitChars == {"0", "1", "2", "3", "4", "5", "6", "7", "8", "9"}

\* str.isdigit on one character (CircuitPython: ASCII digits only).
isdigit(ch) == ch \in DigitChars
\* The value of a digit character.
int_of(ch) ==
  CASE ch = "0" -> 0 [] ch = "1" -> 1 [] ch = "2" -> 2 [] ch = "3" -> 3
    [] ch = "4" -> 4 [] ch = "5" -> 5 [] ch = "6" -> 6 [] ch = "7" -> 7
    [] ch = "8" -> 8 [] ch = "9" -> 9

\* time_str.replace(":", "")
strip_colons(time_str) == SelectSeq(time_str, LAMBDA ch : ch # ":")

\* x_offset without the gap that makes room for the separator.
x_offset_no_gap(pos) == pos * TETRIS_DISTANCE_BETWEEN_DIGITS * SCALE

\* x_offset of set_time for slot pos
x_offset(pos) ==
  pos * TETRIS_DISTANCE_BETWEEN_DIGITS * SCALE + (IF pos >= 2 THEN 3 * SCALE ELSE 0)

\* int(char): the value, or the exception int() raises on a non-digit.
py_int(ch) ==
  IF ch \in DigitChars THEN [exc |-> "none", val |-> int_of(ch)]
  ELSE [exc |-> "ValueError", val |-> 0]

\* "char = time_str[pos] if pos < len(time_str) else ' '"
char_at(s, pos) == IF pos < Len(s) THEN s[pos + 1] ELSE " "

\* "number = int(char) if char.isdigit() else -1"
number_at(s, pos) ==
  LET char == char_at(s, pos)
  IN  IF isdigit(char) THEN py_int(char) ELSE [exc |-> "none", val |-> -1]

\* set_time restarting a slot on every call.
must_update_always(force_refresh, number, state) ==
  force_refresh \/ number # state.num_to_draw \/ number = state.num_to_draw

\* set_time ignoring force_refresh.
must_update_unforced(force_refresh, number, state) ==
  number # state.num_to_draw

\* "Only update if different or forced"
must_update(force_refresh, number, state) ==
  force_refresh \/ number # state.num_to_draw

\* The update of set_time without its assignment to x_shift.
set_slot_keeps_x_shift(state, pos, number, force_refresh) ==
  IF must_update(force_refresh, number, state)
  THEN [num_to_draw |-> number, x_shift |-> state.x_shift,
        fallindex |-> 0, blockindex |-> 0]
  ELSE state

\* The body of set_time's loop for slot pos.
set_slot(state, pos, number, force_refresh) ==
  IF must_update(force_refresh, number, state)
  THEN [num_to_draw |-> number, x_shift |-> x_offset(pos),
        fallindex |-> 0, blockindex |-> 0]
  ELSE state

\* set_time's loop from slot pos on: the slot states it leaves and the
\* exception that ended it, if any.
RECURSIVE set_time_from(_, _, _, _)
set_time_from(states, s, force_refresh, pos) ==
  IF pos >= 4 THEN [states |-> states, exc |-> "none"]
  ELSE LET n == number_at(s, pos)
       IN  IF n.exc # "none" THEN [states |-> states, exc |-> n.exc]
           ELSE set_time_from(
                  [states EXCEPT ![pos] = set_slot(states[pos], pos, n.val, force_refresh)],
                  s, force_refresh, pos + 1)

\* set_time(time_str, force_refresh)
set_time(states, time_str, force_refresh) ==
  set_time_from(states, strip_colons(time_str), force_refresh, 0)

\* The bands of the rotation animation one frame too long: <= for <.
rotation_at_inclusive(num_rot, fallindex, y_stop) ==
  IF num_rot = 1 THEN (IF fallindex <= y_stop \div 2 THEN 0 ELSE 1)
  ELSE IF num_rot = 2
       THEN (IF fallindex <= y_stop \div 3 THEN 0
             ELSE IF fallindex <= (y_stop * 2) \div 3 THEN 1 ELSE 2)
  ELSE IF num_rot = 3
       THEN (IF fallindex <= y_stop \div 4 THEN 0
             ELSE IF fallindex <= y_stop \div 2 THEN 1
             ELSE IF fallindex <= (y_stop * 3) \div 4 THEN 2 ELSE 3)
  ELSE num_rot

\* The rotation of bands of exactly equal width: fallindex * (num_rot + 1)
\* over y_stop, rounded down and capped at num_rot.
rotation_at_even_bands(num_rot, fallindex, y_stop) ==
  IF (fallindex * (num_rot + 1)) \div y_stop < num_rot
  THEN (fallindex * (num_rot + 1)) \div y_stop
  ELSE num_rot

\* "Handle rotation animation": the rotation the falling piece is drawn with.
rotation_at(num_rot, fallindex, y_stop) ==
  IF num_rot = 1 THEN (IF fallindex < y_stop \div 2 THEN 0 ELSE 1)
  ELSE IF num_rot = 2
       THEN (IF fallindex < y_stop \div 3 THEN 0
             ELSE IF fallindex < (y_stop * 2) \div 3 THEN 1 ELSE 2)
  ELSE IF num_rot = 3
       THEN (IF fallindex < y_stop \div 4 THEN 0
             ELSE IF fallindex < y_stop \div 2 THEN 1
             ELSE IF fallindex < (y_stop * 3) \div 4 THEN 2 ELSE 3)
  ELSE num_rot

\* The skip of draw_numbers without its lower bound.
is_blank_no_lower(state) == state.num_to_draw > 9

\* A slot that draw_numbers skips ("if num < 0 or num > 9: continue").
is_blank(state) == state.num_to_draw < 0 \/ state.num_to_draw > 9

\* A slot with a step still falling ("if state['blockindex'] < num_blocks").
is_falling(state) ==
  ~is_blank(state) /\ state.blockindex < num_blocks(state.num_to_draw)

\* The step ending one frame early: the last row is never drawn.
advance_early(state) ==
  LET y_stop == y_stop_of(block_at(state.num_to_draw, state.blockindex))
  IN  IF state.fallindex + 1 >= y_stop
      THEN [state EXCEPT !.fallindex = 0, !.blockindex = state.blockindex + 1]
      ELSE [state EXCEPT !.fallindex = state.fallindex + 1]

\* The step ending one frame late: fallindex compared before it is incremented.
advance_late(state) ==
  LET y_stop == y_stop_of(block_at(state.num_to_draw, state.blockindex))
  IN  IF state.fallindex > y_stop
      THEN [state EXCEPT !.fallindex = 0, !.blockindex = state.blockindex + 1]
      ELSE [state EXCEPT !.fallindex = state.fallindex + 1]

\* fallindex and blockindex after the falling step was drawn.
advance(state) ==
  LET y_stop == y_stop_of(block_at(state.num_to_draw, state.blockindex))
  IN  IF state.fallindex + 1 > y_stop
      THEN [state EXCEPT !.fallindex = 0, !.blockindex = state.blockindex + 1]
      ELSE [state EXCEPT !.fallindex = state.fallindex + 1]

\* fallindex counting on in a slot that has nothing falling.
slot_after_counts_on(state) ==
  IF is_falling(state) THEN advance(state)
  ELSE [state EXCEPT !.fallindex = state.fallindex + 1]

\* The slot after one draw_numbers pass.
slot_after(state) == IF is_falling(state) THEN advance(state) ELSE state

\* The falling piece drawn one block lower: y without "- SCALE".
falling_op_one_lower(state, x, y) ==
  LET block == block_at(state.num_to_draw, state.blockindex)
      rotations == rotation_at(num_rot_of(block), state.fallindex, y_stop_of(block))
  IN  << draw_shape(blocktype_of(block),
                    x + (bx_of(block) * SCALE) + state.x_shift,
                    y + (state.fallindex * SCALE),
                    rotations, SCALE),
         color_of(block) >>

\* The paint operation of the falling piece of a slot.
falling_op(state, x, y) ==
  LET block == block_at(state.num_to_draw, state.blockindex)
      rotations == rotation_at(num_rot_of(block), state.fallindex, y_stop_of(block))
  IN  << draw_shape(blocktype_of(block),
                    x + (bx_of(block) * SCALE) + state.x_shift,
                    y + (state.fallindex * SCALE) - SCALE,
                    rotations, SCALE),
         color_of(block) >>

\* A dropped step drawn unrotated.
dropped_op_unrotated(state, i, x, y) ==
  LET block == block_at(state.num_to_draw, i)
  IN  << draw_shape(blocktype_of(block),
                    x + (bx_of(block) * SCALE) + state.x_shift,
                    y + (y_stop_of(block) * SCALE) - SCALE,
                    0, SCALE),
         color_of(block) >>

\* The paint operation of the already dropped step i of a slot.
dropped_op(state, i, x, y) ==
  LET block == block_at(state.num_to_draw, i)
  IN  << draw_shape(blocktype_of(block),
                    x + (bx_of(block) * SCALE) + state.x_shift,
                    y + (y_stop_of(block) * SCALE) - SCALE,
                    num_rot_of(block), SCALE),
         color_of(block) >>

\* The dropped steps painted before the falling piece.
slot_ops_dropped_first(state, x, y) ==
  IF is_blank(state) THEN << >>
  ELSE [i \in 1 .. slot_after(state).blockindex |-> dropped_op(state, i - 1, x, y)]
       \o (IF is_falling(state) THEN << falling_op(state, x, y) >> ELSE << >>)

\* The paint operations of one slot in one draw_numbers pass, in order: the
\* falling piece, then the dropped steps 0 .. blockindex - 1 (blockindex as
\* already advanced).
slot_ops(state, x, y) ==
  IF is_blank(state) THEN << >>
  ELSE (IF is_falling(state) THEN << falling_op(state, x, y) >> ELSE << >>)
       \o [i \in 1 .. slot_after(state).blockindex |-> dropped_op(state, i - 1, x, y)]

\* The paint operations of draw_numbers for slots numpos .. size - 1.
RECURSIVE numbers_ops(_, _, _, _, _)
numbers_ops(states, numpos, size, x, y) ==
  IF numpos >= size THEN << >>
  ELSE slot_ops(states[numpos], x, y) \o numbers_ops(states, numpos + 1, size, x, y)

\* draw_numbers: its paint operations, the separator included.
draw_numbers_ops(states, size, x, y_finish, display_colon) ==
  LET y == y_finish - (TETRIS_Y_DROP_DEFAULT * SCALE)
  IN  numbers_ops(states, 0, size, x, y)
      \o (IF display_colon THEN << <<colon_cells(x, y), COLOR_WHITE>> >> ELSE << >>)

\* draw_numbers returning True as soon as one slot has nothing to draw.
draw_numbers_result_any(states, size) ==
  \E numpos \in 0 .. size - 1 : ~is_falling(states[numpos])

\* draw_numbers: the value it returns.
draw_numbers_result(states, size) ==
  \A numpos \in 0 .. size - 1 : ~is_falling(states[numpos])

\* draw_numbers: the slot states it leaves.
draw_numbers_states(states, size) ==
  [pos \in Slots |-> IF pos < size THEN slot_after(states[pos]) ELSE states[pos]]

(***************************************************************************)
(* State.                                                                  *)
(***************************************************************************)
VARIABLES
  num_states,               \* self.num_states: slot -> its animation state
  size_of_value,            \* self.size_of_value
  show_colon,               \* self.show_colon
  finished_animating,       \* self.finished_animating
  last_daily_reconnect_day, \* self.last_daily_reconnect_day
  bitmap,                   \* self.bitmap: cell -> palette index
  TWELVE_HOUR_FORMAT,       \* settings.toml, read once at import
  FORCE_REFRESH,            \* settings.toml, read once at import
  last_second,              \* local of run
  last_minute,              \* local of run
  current_ampm,             \* local of run
  rtc,                      \* the system clock time.localtime() reads
  pc,                       \* where the program is
  sync,                     \* the running call of sync_time_with_retry
  raised,                   \* the exception that left the last operation, or "none"
  ticks,                    \* observer: frames with a falling piece since every slot restarted
  frames,                   \* observer: frames since the last set_time, up to MaxBusy + 1
  fired,                    \* observer: day -> calls of reconnect_wifi on it, up to 2
  obs                       \* observer: what the last step did

anim_vars == <<num_states, size_of_value, finished_animating, bitmap>>
cfg_vars == <<TWELVE_HOUR_FORMAT, FORCE_REFRESH>>
run_vars == <<show_colon, last_daily_reconnect_day, last_second, last_minute,
              current_ampm, rtc, pc, sync>>
vars == <<num_states, size_of_value, show_colon, finished_animating,
          last_daily_reconnect_day, bitmap, TWELVE_HOUR_FORMAT, FORCE_REFRESH,
          last_second, last_minute, current_ampm, rtc, pc, sync, raised, ticks,
          frames, fired, obs>>

(***************************************************************************)
(* Bounds of the model and the inputs it draws.                            *)
(***************************************************************************)
\* Days of the month the clock runs through.
MaxDay == 2
\* While an animation runs, the clock is sampled to move on only during its
\* first MaxBusy frames and before its last frame (and at any time once the
\* display is at rest).
MaxBusy == 1

\* The times of day the clock is sampled at on the first day, in order: the
\* hourly trigger (minute 0, second 0), the daily trigger minute and a later
\* second of it.
DayTimes ==
  << [tm_hour |-> DAILY_RECONNECT_HOUR, tm_min |-> 0, tm_sec |-> 0],
     [tm_hour |-> DAILY_RECONNECT_HOUR, tm_min |-> DAILY_RECONNECT_MINUTE, tm_sec |-> 0],
     [tm_hour |-> DAILY_RECONNECT_HOUR, tm_min |-> DAILY_RECONNECT_MINUTE, tm_sec |-> 1] >>

time_point(day, i) ==
  [tm_mday |-> day, tm_hour |-> DayTimes[i].tm_hour,
   tm_min |-> DayTimes[i].tm_min, tm_sec |-> DayTimes[i].tm_sec]

\* The sampled instants, chronologically: the times of the first day, then
\* the last of them (in the daily trigger minute) on each later day.
TimePoints ==
  [k \in 1 .. Len(DayTimes) + MaxDay - 1 |->
     IF k <= Len(DayTimes) THEN time_point(1, k)
     ELSE time_point(k - Len(DayTimes) + 1, Len(DayTimes))]

\* The configurations: the defaults of the settings, and their opposites.
Configs ==
  { [TWELVE_HOUR_FORMAT |-> TRUE, FORCE_REFRESH |-> TRUE],
    [TWELVE_HOUR_FORMAT |-> FALSE, FORCE_REFRESH |-> FALSE] }

\* The datetimes a fetch can return when the clock reads now: the same time
\* (the clock was right) or the start of the first day's trigger minute (the
\* clock was off).
FetchTimes(now) == { now, time_point(1, 2) }

\* Time strings of the harness: a string shorter than four characters, one
\* that repeats its digit in the next slot, and one with a leading space, a
\* letter and a digit right of the separator.
TimeStrs ==
  { <<"1">>, <<"1", ":", "1">>, <<" ", "x", ":", "7">> }

\* Time strings of the landing scenario: every digit occurs.
ScenarioStrs ==
  { <<"0", "7", ":", "4", "5">>, <<"1", "2", ":", "3", "6">>,
    <<"2", "3", ":", "5", "9">>, <<"1", "0", ":", "0", "8">> }

(***************************************************************************)
(* get_current_time.                                                       *)
(***************************************************************************)
digit_char(d) ==
  CASE d = 0 -> "0" [] d = 1 -> "1" [] d = 2 -> "2" [] d = 3 -> "3" [] d = 4 -> "4"
    [] d = 5 -> "5" [] d = 6 -> "6" [] d = 7 -> "7" [] d = 8 -> "8" [] d = 9 -> "9"

\* f"{n:2d}" and f"{n:02d}" for 0 <= n < 100
fmt_2d(n) ==
  IF n < 10 THEN <<" ", digit_char(n)>> ELSE <<digit_char(n \div 10), digit_char(n % 10)>>
fmt_02d(n) == <<digit_char(n \div 10), digit_char(n % 10)>>

\* get_current_time without the case of midnight.
get_current_time_no_midnight(now, twelve_hour) ==
  IF twelve_hour
  THEN LET hour == IF now.tm_hour > 12 THEN now.tm_hour - 12 ELSE now.tm_hour
       IN  << fmt_2d(hour) \o <<":">> \o fmt_02d(now.tm_min),
              IF now.tm_hour < 12 THEN "AM" ELSE "PM" >>
  ELSE << fmt_02d(now.tm_hour) \o <<":">> \o fmt_02d(now.tm_min), "" >>

\* <<time_str, ampm>>
get_current_time(now, twelve_hour) ==
  IF twelve_hour
  THEN LET hour == IF now.tm_hour = 0 THEN 12
                   ELSE IF now.tm_hour > 12 THEN now.tm_hour - 12 ELSE now.tm_hour
       IN  << fmt_2d(hour) \o <<":">> \o fmt_02d(now.tm_min),
              IF now.tm_hour < 12 THEN "AM" ELSE "PM" >>
  ELSE << fmt_02d(now.tm_hour) \o <<":">> \o fmt_02d(now.tm_min), "" >>

(***************************************************************************)
(* Frame composition.                                                      *)
(***************************************************************************)
\* The paint operations of one compositor pass (run, "Update animation"):
\* draw_numbers, then draw_ampm in 12-hour mode.
frame_ops(states, size, colon, ampm, twelve_hour) ==
  draw_numbers_ops(states, size, X_POS, Y_FINISH, colon)
  \o (IF twelve_hour /\ ampm # ""
      THEN << <<ampm_cells(ampm, AMPM_X, AMPM_Y), COLOR_WHITE>> >>
      ELSE << >>)

\* The cells each palette index ends on after the paint operations ops[1..i],
\* each <<cells, colour>>, run in order: a cell keeps the colour of the last
\* operation that writes it, so the operations are scanned from the last one
\* back and each contributes the cells no later operation covered.
RECURSIVE layers(_, _, _, _)
layers(ops, i, covered, acc) ==
  IF i = 0 THEN acc
  ELSE layers(ops, i - 1, covered \cup ops[i][1],
              [acc EXCEPT ![ops[i][2]] = @ \cup (ops[i][1] \ covered)])

\* The frame buffer after clear_display and the paint operations ops.
compose(ops) ==
  LET classes == layers(ops, Len(ops), {}, [k \in 0 .. 8 |-> {}])
      written == UNION { classes[k] : k \in 0 .. 8 }
  IN  [c \in Cells |-> IF c \in written THEN CHOOSE k \in 0 .. 8 : c \in classes[k]
                       ELSE COLOR_BLACK]

\* draw_colon clearing the display before it draws the dots.
draw_colon_cleared(bm, x, y, show) ==
  LET color == IF show THEN COLOR_WHITE ELSE COLOR_BLACK
  IN  overwrite(clear_display, paint(<< >>, colon_cells(x, y), color))

\* draw_colon lighting the dots whatever the flag.
draw_colon_always_lit(bm, x, y, show) ==
  overwrite(bm, paint(<< >>, colon_cells(x, y), COLOR_WHITE))

\* draw_colon(x, y, show) on the buffer bm.
draw_colon(bm, x, y, show) ==
  LET color == IF show THEN COLOR_WHITE ELSE COLOR_BLACK
  IN  overwrite(bm, paint(<< >>, colon_cells(x, y), color))

(***************************************************************************)
(* Construction.                                                           *)
(***************************************************************************)
NoSync ==
  [attempt |-> 0, max_retries |-> 0, retry_delay |-> 0, caller |-> "none",
   fetches |-> 0, sleeps |-> 0, slept |-> 0, rtc_writes |-> 0, result |-> "none"]

\* What a step did: the operation, whether it called set_time (and with which
\* force_refresh, and the slots whose digit it repeated while they were part-way
\* through or past their script), whether it composed a frame, whether it took
\* the separator-only path, the display refreshes, the result of
\* reconnect_wifi, the caller of sync_time_with_retry and the part of the
\* construction that raised.
NoObs ==
  [step |-> "none", set_time |-> FALSE, force_refresh |-> FALSE, same_busy |-> {},
   composed |-> FALSE, colon_only |-> FALSE, flushes |-> 0, reconnect |-> "none",
   sync_call |-> "none", failed |-> "none"]

\* The fields TetrisClock.__init__ sets, and the locals of run before its loop.
Constructed ==
  /\ num_states = [pos \in Slots |->
                     [num_to_draw |-> -1, fallindex |-> 0, blockindex |-> 0, x_shift |-> 0]]
  /\ size_of_value = SIZE_OF_VALUE
  /\ show_colon = TRUE
  /\ finished_animating = TRUE
  /\ last_daily_reconnect_day = -1
  /\ bitmap = new_bitmap
  /\ last_second = -1
  /\ last_minute = -1
  /\ current_ampm = ""
  /\ sync = NoSync
  /\ raised = "none"
  /\ ticks = -1
  /\ frames = 0
  /\ fired = [day \in 1 .. MaxDay |-> 0]
  /\ obs = NoObs

(***************************************************************************)
(* The harness: set_time and the compositor pass called directly.          *)
(***************************************************************************)
\* The frame counter after set_time: 0 when every slot restarted, unchanged
\* when none did, -1 (not counting) when only some did.
ticks_after_set_time(states, s, force_refresh, old) ==
  LET restarts == { pos \in 0 .. 3 :
                      must_update(force_refresh, number_at(s, pos).val, states[pos]) }
  IN  IF restarts = 0 .. 3 THEN 0 ELSE IF restarts = {} THEN old ELSE -1

\* The slots whose digit set_time(s) repeats and that have left the start of
\* their script.
same_busy(states, s) ==
  { pos \in 0 .. 3 :
      /\ number_at(s, pos).val = states[pos].num_to_draw
      /\ (states[pos].fallindex > 0 \/ states[pos].blockindex > 0) }

\* The frames since the last set_time, after one more.
frames_after_frame(old) == IF old <= MaxBusy THEN old + 1 ELSE old

\* The frame counter after a compositor pass: it counts the passes that drew
\* a falling piece.
ticks_after_frame(old, all_landed) == IF old >= 0 /\ ~all_landed THEN old + 1 ELSE old

SetTime(time_str, force_refresh) ==
  /\ pc = "harness"
  /\ LET r == set_time(num_states, time_str, force_refresh)
     IN  /\ num_states' = r.states
         /\ raised' = r.exc
  /\ size_of_value' = SIZE_OF_VALUE
  /\ ticks' = ticks_after_set_time(num_states, strip_colons(time_str), force_refresh, ticks)
  /\ frames' = 0
  /\ obs' = [NoObs EXCEPT !.step = "set_time", !.set_time = TRUE,
                         !.force_refresh = force_refresh,
                         !.same_busy = same_busy(num_states, strip_colons(time_str))]
  /\ UNCHANGED <<finished_animating, bitmap, cfg_vars, run_vars, fired>>

UpdateAnimation ==
  /\ pc = "harness"
  /\ bitmap' = compose(frame_ops(num_states, size_of_value, show_colon,
                                 current_ampm, TWELVE_HOUR_FORMAT))
  /\ finished_animating' = draw_numbers_result(num_states, size_of_value)
  /\ num_states' = draw_numbers_states(num_states, size_of_value)
  /\ ticks' = ticks_after_frame(ticks, draw_numbers_result(num_states, size_of_value))
  /\ frames' = frames_after_frame(frames)
  /\ obs' = [NoObs EXCEPT !.step = "frame", !.composed = TRUE, !.flushes = 1]
  /\ UNCHANGED <<size_of_value, cfg_vars, run_vars, raised, fired>>

InitAnim ==
  /\ Constructed
  /\ pc = "harness"
  /\ TWELVE_HOUR_FORMAT = TRUE
  /\ FORCE_REFRESH = TRUE
  /\ rtc = TimePoints[1]

NextAnim ==
  \/ \E time_str \in TimeStrs, force_refresh \in BOOLEAN : SetTime(time_str, force_refresh)
  \/ UpdateAnimation

SpecAnim == InitAnim /\ [][NextAnim]_vars

\* The landing scenario: one set_time of a full time string, then frames.
NextLanding ==
  \/ \E time_str \in ScenarioStrs, force_refresh \in BOOLEAN :
       /\ ticks = -1
       /\ SetTime(time_str, force_refresh)
  \/ UpdateAnimation

SpecLanding == InitAnim /\ [][NextLanding]_vars

\* Time strings that put each digit into each of the four slots.
DigitStrs ==
  { << digit_char(d), digit_char(d), ":", digit_char(d), digit_char(d) >> : d \in Digits }

\* The clock as constructed, with the AM/PM string of run as a minute branch
\* of the morning or of the afternoon leaves it.
InitDigits ==
  /\ num_states = [pos \in Slots |->
                     [num_to_draw |-> -1, fallindex |-> 0, blockindex |-> 0, x_shift |-> 0]]
  /\ size_of_value = SIZE_OF_VALUE
  /\ show_colon = TRUE
  /\ finished_animating = TRUE
  /\ last_daily_reconnect_day = -1
  /\ bitmap = new_bitmap
  /\ TWELVE_HOUR_FORMAT = TRUE
  /\ FORCE_REFRESH = TRUE
  /\ last_second = -1
  /\ last_minute = -1
  /\ current_ampm \in {"AM", "PM"}
  /\ rtc = TimePoints[1]
  /\ pc = "harness"
  /\ sync = NoSync
  /\ raised = "none"
  /\ ticks = -1
  /\ frames = 0
  /\ fired = [day \in 1 .. MaxDay |-> 0]
  /\ obs = NoObs

\* The digit scenario: one set_time that gives the four slots one digit, then
\* frames.
NextDigits ==
  \/ \E time_str \in DigitStrs :
       /\ ticks = -1
       /\ SetTime(time_str, TRUE)
  \/ UpdateAnimation

SpecDigits == InitDigits /\ [][NextDigits]_vars

\* The times of day time.localtime() can return.
Hours == 0 .. 23
Minutes == 0 .. 59

\* The minute branch of run called directly: get_current_time, then set_time
\* with its string, the flag cleared and the AM/PM string and the minute kept.
MinuteUpdate ==
  /\ pc = "format"
  /\ LET t == get_current_time(rtc, TWELVE_HOUR_FORMAT)
         r == set_time(num_states, t[1], FORCE_REFRESH)
     IN  /\ num_states' = r.states
         /\ raised' = r.exc
         /\ current_ampm' = t[2]
         /\ ticks' = ticks_after_set_time(num_states, strip_colons(t[1]),
                                          FORCE_REFRESH, ticks)
         /\ obs' = [NoObs EXCEPT !.step = "minute", !.set_time = TRUE,
                                !.force_refresh = FORCE_REFRESH,
                                !.same_busy = same_busy(num_states, strip_colons(t[1]))]
  /\ size_of_value' = SIZE_OF_VALUE
  /\ finished_animating' = FALSE
  /\ last_minute' = rtc.tm_min
  /\ frames' = 0
  /\ pc' = "formatted"
  /\ UNCHANGED <<bitmap, cfg_vars, show_colon, last_daily_reconnect_day,
                 last_second, rtc, sync, fired>>

\* The clock constructed in either hour format, at any time of day.
InitFormat ==
  /\ Constructed
  /\ pc = "format"
  /\ TWELVE_HOUR_FORMAT \in BOOLEAN
  /\ FORCE_REFRESH = FALSE
  /\ rtc \in { [tm_mday |-> 1, tm_hour |-> h, tm_min |-> m, tm_sec |-> 0] :
                h \in Hours, m \in Minutes }

NextFormat == MinuteUpdate

SpecFormat == InitFormat /\ [][NextFormat]_vars

(***************************************************************************)
(* The program: construction, run, sync_time_with_retry, the idle loop.    *)
(***************************************************************************)
\* get_credentials accepting an SSID without a password.
get_credentials_ssid_only(ssid, password) ==
  IF ssid THEN "none" ELSE "RuntimeError"

\* get_credentials: the exception it raises, if any ("if ssid and password",
\* each true when the setting is there and not empty).
get_credentials(ssid, password) ==
  IF ssid /\ password THEN "none" ELSE "RuntimeError"

\* The entry point: TetrisClock() is constructed.  The display comes up or
\* Matrix() raises; the credentials are there or get_credentials raises; the
\* first WiFi connect succeeds or raises.  Any exception ends in the idle loop.
Construct ==
  /\ pc = "main"
  /\ \E display_ok \in BOOLEAN, ssid \in BOOLEAN, password \in BOOLEAN,
        wifi_ok \in BOOLEAN :
       /\ raised' = IF ~display_ok THEN "Exception"
                    ELSE IF get_credentials(ssid, password) # "none"
                         THEN get_credentials(ssid, password)
                    ELSE IF ~wifi_ok THEN "Exception"
                    ELSE "none"
       /\ pc' = IF display_ok /\ get_credentials(ssid, password) = "none" /\ wifi_ok
                THEN "run" ELSE "halt"
       /\ obs' = [NoObs EXCEPT !.step = "construct",
                               !.failed = IF ~display_ok THEN "display"
                                          ELSE IF ~ssid THEN "ssid"
                                          ELSE IF ~password THEN "password"
                                          ELSE IF ~wifi_ok THEN "wifi"
                                          ELSE "none"]
  /\ UNCHANGED <<anim_vars, cfg_vars, show_colon, last_daily_reconnect_day,
                 last_second, last_minute, current_ampm, rtc, sync, ticks, frames,
                 fired>>

\* The idle loop of the entry point after a fatal error.
Halt ==
  /\ pc = "halt"
  /\ obs' = [NoObs EXCEPT !.step = "halt"]
  /\ UNCHANGED <<anim_vars, cfg_vars, run_vars, raised, ticks, frames, fired>>

\* Entering sync_time_with_retry(max_retries, retry_delay) from caller.
call_sync(max_retries, retry_delay, caller) ==
  [NoSync EXCEPT !.max_retries = max_retries, !.retry_delay = retry_delay,
                 !.caller = caller, !.result = "running"]

\* run, up to its loop: the locals and the startup sync with the defaults.
RunStart ==
  /\ pc = "run"
  /\ pc' = "fetch"
  /\ sync' = call_sync(TIME_SYNC_RETRIES, TIME_SYNC_RETRY_DELAY, "startup")
  /\ last_second' = -1
  /\ last_minute' = -1
  /\ current_ampm' = ""
  /\ obs' = [NoObs EXCEPT !.step = "run", !.sync_call = "startup"]
  /\ UNCHANGED <<anim_vars, cfg_vars, show_colon, last_daily_reconnect_day, rtc,
                 raised, ticks, frames, fired>>

\* The moments of an animation the clock is sampled to change at.
clock_sampled ==
  \/ finished_animating
  \/ frames <= MaxBusy
  \/ draw_numbers_result(num_states, size_of_value)

\* The except branch letting the exception of the last attempt through.
after_failure_raises(s) ==
  IF s.attempt < s.max_retries - 1
  THEN [sync |-> [s EXCEPT !.fetches = @ + 1, !.attempt = @ + 1, !.sleeps = @ + 1,
                           !.slept = @ + s.retry_delay],
        pc |-> "fetch", raised |-> "none"]
  ELSE [sync |-> [s EXCEPT !.fetches = @ + 1, !.attempt = @ + 1, !.result = "False"],
        pc |-> "halt", raised |-> "Exception"]

\* The except branch sleeping after every failed attempt, the last included.
after_failure_sleeps_always(s) ==
  IF s.attempt < s.max_retries - 1
  THEN [sync |-> [s EXCEPT !.fetches = @ + 1, !.attempt = @ + 1, !.sleeps = @ + 1,
                           !.slept = @ + s.retry_delay],
        pc |-> "fetch", raised |-> "none"]
  ELSE [sync |-> [s EXCEPT !.fetches = @ + 1, !.attempt = @ + 1, !.sleeps = @ + 1,
                           !.slept = @ + s.retry_delay, !.result = "False"],
        pc |-> "loop", raised |-> "none"]

\* The except branch of the retry loop for the call s: the exception is
\* swallowed; before the last attempt the call sleeps retry_delay and goes
\* round again, after it the loop ends and the call returns False.
after_failure(s) ==
  IF s.attempt < s.max_retries - 1
  THEN [sync |-> [s EXCEPT !.fetches = @ + 1, !.attempt = @ + 1, !.sleeps = @ + 1,
                           !.slept = @ + s.retry_delay],
        pc |-> "fetch", raised |-> "none"]
  ELSE [sync |-> [s EXCEPT !.fetches = @ + 1, !.attempt = @ + 1, !.result = "False"],
        pc |-> "loop", raised |-> "none"]

\* The try branch when nothing raises: the clock is written and the call
\* returns True.
after_success(s) ==
  [s EXCEPT !.fetches = @ + 1, !.rtc_writes = @ + 1, !.result = "True"]

\* One pass of the retry loop of sync_time_with_retry: the fetch succeeds and
\* the clock is set to the fetched time, or anything in the try block raises.
SyncAttempt ==
  /\ pc = "fetch"
  /\ sync.attempt < sync.max_retries
  /\ \/ \E fetched \in (IF clock_sampled THEN FetchTimes(rtc) ELSE {rtc}) :
          /\ rtc' = fetched
          /\ sync' = after_success(sync)
          /\ pc' = "loop"
          /\ UNCHANGED raised
     \/ /\ UNCHANGED rtc
        /\ sync' = after_failure(sync).sync
        /\ pc' = IF after_failure(sync).raised = "none" THEN after_failure(sync).pc
                 ELSE "halt"
        /\ raised' = IF after_failure(sync).raised = "none" THEN raised
                     ELSE after_failure(sync).raised
  /\ obs' = [NoObs EXCEPT !.step = "fetch"]
  /\ UNCHANGED <<anim_vars, cfg_vars, show_colon, last_daily_reconnect_day,
                 last_second, last_minute, current_ampm, ticks, frames, fired>>

\* Time passes: the clock moves on to the next sampled instant.
ClockAdvance ==
  /\ pc \in {"loop", "fetch"}
  /\ clock_sampled
  /\ \E k \in 1 .. Len(TimePoints) - 1 :
       /\ rtc = TimePoints[k]
       /\ rtc' = TimePoints[k + 1]
  /\ UNCHANGED <<anim_vars, cfg_vars, show_colon, last_daily_reconnect_day,
                 last_second, last_minute, current_ampm, pc, sync, raised, ticks,
                 frames, fired, obs>>

\* The minute check seeing only the first iteration.
minute_changed_only_first(now, last) == last = -1

\* "current_minute != last_minute or last_minute == -1"
minute_changed(now, last) == now.tm_min # last \/ last = -1

\* The condition of the daily reconnect.
daily_due(now, last_day) ==
  /\ now.tm_hour = DAILY_RECONNECT_HOUR
  /\ now.tm_min = DAILY_RECONNECT_MINUTE
  /\ now.tm_mday # last_day

\* The condition of the hourly resync (the elif of the daily reconnect).
hourly_due(now, last_day) ==
  /\ ~daily_due(now, last_day)
  /\ now.tm_min = 0
  /\ now.tm_sec = 0

\* reconnect_wifi letting the exception of the connect through.
reconnect_wifi_raises(connect_ok) ==
  [result |-> connect_ok, raised |-> IF connect_ok THEN "none" ELSE "Exception"]

\* reconnect_wifi: the station is stopped (a failure of that is swallowed by
\* the inner try) and network.connect() is called; the outer try turns an
\* exception of the connect into the result False.
reconnect_wifi(connect_ok) ==
  [result |-> connect_ok, raised |-> "none"]

\* One iteration of the loop of run, up to the call of sync_time_with_retry
\* that its maintenance branch makes, if any.
Tick ==
  /\ pc = "loop"
  /\ LET now == rtc
         changed == minute_changed(now, last_minute)
         t == get_current_time(now, TWELVE_HOUR_FORMAT)
         r == IF changed THEN set_time(num_states, t[1], FORCE_REFRESH)
              ELSE [states |-> num_states, exc |-> "none"]
         ampm1 == IF changed THEN t[2] ELSE current_ampm
         fin1 == IF changed THEN FALSE ELSE finished_animating
         ticks1 == IF changed
                   THEN ticks_after_set_time(num_states, strip_colons(t[1]),
                                             FORCE_REFRESH, ticks)
                   ELSE ticks
         size1 == IF changed THEN SIZE_OF_VALUE ELSE size_of_value
         landed == draw_numbers_result(r.states, size1)
         fin2 == IF fin1 THEN fin1 ELSE landed
         states2 == IF fin1 THEN r.states
                    ELSE draw_numbers_states(r.states, size1)
         bitmap1 == IF fin1 THEN bitmap
                    ELSE compose(frame_ops(r.states, size1, show_colon,
                                           ampm1, TWELVE_HOUR_FORMAT))
         second_changed == now.tm_sec # last_second
         show2 == IF second_changed THEN ~show_colon ELSE show_colon
         colon_only == second_changed /\ fin2
         bitmap2 == IF colon_only
                    THEN draw_colon(bitmap1, X_POS,
                                    Y_FINISH - (TETRIS_Y_DROP_DEFAULT * SCALE), show2)
                    ELSE bitmap1
         daily == daily_due(now, last_daily_reconnect_day)
         hourly == hourly_due(now, last_daily_reconnect_day)
     IN  IF r.exc # "none"
         THEN /\ raised' = r.exc
              /\ pc' = "halt"
              /\ num_states' = r.states
              /\ size_of_value' = SIZE_OF_VALUE
              /\ obs' = [NoObs EXCEPT !.step = "tick", !.set_time = TRUE]
              /\ UNCHANGED <<finished_animating, bitmap, show_colon,
                             last_daily_reconnect_day, last_second, last_minute,
                             current_ampm, sync, ticks, frames, fired>>
         ELSE /\ num_states' = states2
              /\ size_of_value' = size1
              /\ finished_animating' = fin2
              /\ current_ampm' = ampm1
              /\ last_minute' = now.tm_min
              /\ bitmap' = bitmap2
              /\ show_colon' = show2
              /\ last_second' = now.tm_sec
              /\ ticks' = IF fin1 THEN ticks1 ELSE ticks_after_frame(ticks1, landed)
              /\ frames' = IF fin1 THEN (IF changed THEN 0 ELSE frames)
                            ELSE frames_after_frame(IF changed THEN 0 ELSE frames)
              /\ last_daily_reconnect_day' =
                   IF daily THEN now.tm_mday ELSE last_daily_reconnect_day
              /\ fired' = IF daily
                          THEN [fired EXCEPT ![now.tm_mday] = IF @ < 2 THEN @ + 1 ELSE @]
                          ELSE fired
              /\ \E connect_ok \in BOOLEAN :
                   LET reconnected == reconnect_wifi(connect_ok).result
                       exc == IF daily THEN reconnect_wifi(connect_ok).raised ELSE "none"
                   IN
                   /\ ~daily => connect_ok
                   /\ raised' = exc
                   /\ pc' = IF exc # "none" THEN "halt"
                            ELSE IF (daily /\ reconnected) \/ hourly THEN "fetch"
                            ELSE "loop"
                   /\ sync' = IF daily /\ reconnected
                              THEN call_sync(TIME_SYNC_RETRIES, TIME_SYNC_RETRY_DELAY,
                                             "daily")
                              ELSE IF hourly THEN call_sync(1, 0, "hourly")
                              ELSE NoSync
                   /\ obs' = [step |-> "tick", set_time |-> changed,
                              force_refresh |-> changed /\ FORCE_REFRESH,
                              same_busy |-> IF changed
                                            THEN same_busy(num_states, strip_colons(t[1]))
                                            ELSE {},
                              composed |-> ~fin1, colon_only |-> colon_only,
                              flushes |-> (IF fin1 THEN 0 ELSE 1)
                                          + (IF colon_only THEN 1 ELSE 0),
                              reconnect |-> IF ~daily THEN "none"
                                            ELSE IF reconnected THEN "True"
                                            ELSE "False",
                              sync_call |-> IF daily /\ reconnected THEN "daily"
                                            ELSE IF hourly THEN "hourly" ELSE "none",
                              failed |-> "none"]
  /\ UNCHANGED <<cfg_vars, rtc>>

\* The program at its entry point; the fields of the clock hold the values
\* its construction gives them.
Init ==
  /\ Constructed
  /\ pc = "main"
  /\ \E c \in Configs :
       /\ TWELVE_HOUR_FORMAT = c.TWELVE_HOUR_FORMAT
       /\ FORCE_REFRESH = c.FORCE_REFRESH
  /\ rtc = TimePoints[1]

Next == Construct \/ Halt \/ RunStart \/ SyncAttempt \/ ClockAdvance \/ Tick

Spec == Init /\ [][Next]_vars

\* The program is one thread: inside sync_time_with_retry nothing but its own
\* retry loop runs, and each pass ends when the fetch returns or raises, so a
\* pass that can be made is made.
SpecFair == Init /\ [][Next]_vars /\ WF_vars(SyncAttempt)

(***************************************************************************)
(* Properties.                                                             *)
(***************************************************************************)
\* C1: in every reachable state, whatever set_time calls and draw_numbers
\* passes led to it, each slot showing a digit 0-9 has blockindex between 0 and
\* the length of the digit's script, and fallindex between 0 and the y_stop of
\* its current step (0 once every step has landed).
C1_SlotWithinScript ==
  \A pos \in Slots :
    LET state == num_states[pos]
        num == state.num_to_draw
    IN  (num >= 0 /\ num <= 9) =>
          /\ 0 <= state.blockindex
          /\ state.blockindex <= Len(NUMBERS[num + 1])
          /\ 0 <= state.fallindex
          /\ IF state.blockindex < Len(NUMBERS[num + 1])
             THEN state.fallindex <= NUMBERS[num + 1][state.blockindex + 1][4]
             ELSE state.fallindex = 0

\* A slot whose script has fully landed beside a slot on the last row of a
\* later step of its script.
C1_Witness ==
  \E p, q \in 0 .. 3 :
    /\ num_states[p].num_to_draw \in Digits
    /\ num_states[p].blockindex = Len(NUMBERS[num_states[p].num_to_draw + 1])
    /\ num_states[q].num_to_draw \in Digits
    /\ num_states[q].blockindex > 0
    /\ num_states[q].blockindex < Len(NUMBERS[num_states[q].num_to_draw + 1])
    /\ num_states[q].fallindex =
         NUMBERS[num_states[q].num_to_draw + 1][num_states[q].blockindex + 1][4]

\* C2: set_time with force_refresh = FALSE leaves num_to_draw, x_shift,
\* fallindex and blockindex of every slot whose digit in the time string is
\* the digit the slot already shows as they were, falling or landed.
C2_SameDigitNoRestart ==
  [][\A time_str \in TimeStrs :
       SetTime(time_str, FALSE) =>
         \A pos \in 0 .. 3 :
           number_at(strip_colons(time_str), pos).val = num_states[pos].num_to_draw
             => num_states'[pos] = num_states[pos]]_vars

\* set_time without force_refresh has just repeated the digit of a slot in
\* mid-fall and of a landed slot, and both still are where they were.
C2_Witness ==
  /\ obs.step = "set_time"
  /\ ~obs.force_refresh
  /\ \E p, q \in obs.same_busy :
       /\ num_states[p].num_to_draw \in Digits
       /\ num_states[p].blockindex < Len(NUMBERS[num_states[p].num_to_draw + 1])
       /\ num_states[p].fallindex > 0
       /\ num_states[q].num_to_draw \in Digits
       /\ num_states[q].blockindex = Len(NUMBERS[num_states[q].num_to_draw + 1])

\* C3: set_time with force_refresh = TRUE leaves every slot of num_states with
\* fallindex = 0 and blockindex = 0, whether or not its digit changed and
\* wherever its animation was.
C3_ForcedRestartsAll ==
  [][\A time_str \in TimeStrs :
       SetTime(time_str, TRUE) =>
         \A pos \in Slots :
           num_states'[pos].fallindex = 0 /\ num_states'[pos].blockindex = 0]_vars

\* A forced set_time has just repeated the digit of a slot that had left the
\* start of its script, and every slot is back at the start.
C3_Witness ==
  /\ obs.step = "set_time"
  /\ obs.force_refresh
  /\ \E p \in obs.same_busy : num_states[p].num_to_draw \in Digits
  /\ \A pos \in Slots : num_states[pos].fallindex = 0 /\ num_states[pos].blockindex = 0

\* The rotation the claimed bands give a step with num_rot = 2 and y_stop = 12.
C4_band(fallindex) == IF fallindex < 4 THEN 0 ELSE IF fallindex < 8 THEN 1 ELSE 2

\* The slot is falling on a step with num_rot = 2 and y_stop = 12.
C4_on_step(state) ==
  /\ state.num_to_draw \in Digits
  /\ state.blockindex < Len(NUMBERS[state.num_to_draw + 1])
  /\ NUMBERS[state.num_to_draw + 1][state.blockindex + 1][5] = 2
  /\ NUMBERS[state.num_to_draw + 1][state.blockindex + 1][4] = 12

\* C4: whenever a slot is falling on a step with num_rot = 2 and y_stop = 12,
\* its fallindex is in 0 .. 12 and the piece draw_numbers draws for it has
\* rotation 0 for fallindex in [0, 4), 1 in [4, 8) and 2 in [8, 12].
C4_RotationBands ==
  \A pos \in 0 .. 3 :
    LET state == num_states[pos]
        block == NUMBERS[state.num_to_draw + 1][state.blockindex + 1]
        y == Y_FINISH - (TETRIS_Y_DROP_DEFAULT * SCALE)
    IN  C4_on_step(state) =>
          /\ state.fallindex \in 0 .. 12
          /\ rotation_at(block[5], state.fallindex, block[4]) = C4_band(state.fallindex)
          /\ falling_op(state, X_POS, y) =
               << draw_shape(block[1], X_POS + (block[3] * SCALE) + state.x_shift,
                             y + (state.fallindex * SCALE) - SCALE,
                             C4_band(state.fallindex), SCALE),
                  block[2] >>

\* Two slots are falling on such a step, one in the first band with a frame
\* drawn, one in the second.
C4_Witness ==
  /\ obs.step = "frame"
  /\ \E p, q \in 0 .. 3 :
       /\ C4_on_step(num_states[p]) /\ num_states[p].fallindex \in 1 .. 3
       /\ C4_on_step(num_states[q]) /\ num_states[q].fallindex \in 4 .. 7

\* The frames the script of digit num takes to land: each step falls for
\* y_stop + 1 frames, one step after the other.
RECURSIVE C5_script_ticks(_, _)
C5_script_ticks(num, i) ==
  IF i > Len(NUMBERS[num + 1]) THEN 0
  ELSE NUMBERS[num + 1][i][4] + 1 + C5_script_ticks(num, i + 1)

C5_max(S) == CHOOSE m \in S : \A n \in S : n <= m

\* The largest y_stop of any step of the digits assigned to slots 0 .. 3.
C5_fall_stop_max ==
  C5_max(UNION { { NUMBERS[num_states[pos].num_to_draw + 1][i][4] :
                     i \in 1 .. Len(NUMBERS[num_states[pos].num_to_draw + 1]) } :
                 pos \in 0 .. 3 })

\* The frames until the slowest of the four slots has landed.
C5_landing_ticks ==
  C5_max({ C5_script_ticks(num_states[pos].num_to_draw, 1) : pos \in 0 .. 3 })

C5_all_landed ==
  \A pos \in 0 .. 3 :
    /\ num_states[pos].num_to_draw \in Digits
    /\ num_states[pos].blockindex = Len(NUMBERS[num_states[pos].num_to_draw + 1])

\* The cells of step i of the glyph of digit num in slot pos: the step at its
\* resting row, with its final rotation, at the column of the slot.
C5_step_cells(num, pos, i) ==
  LET block == NUMBERS[num + 1][i]
  IN  draw_shape(block[1], X_POS + (block[3] * SCALE) + x_offset(pos),
                 (Y_FINISH - (TETRIS_Y_DROP_DEFAULT * SCALE)) + (block[4] * SCALE) - SCALE,
                 block[5], SCALE)

\* The frame is the static glyphs of the four digits and the separator.
C5_frame_is_glyphs ==
  LET steps == { <<pos, i>> \in (0 .. 3) \X (1 .. 13) :
                   i <= Len(NUMBERS[num_states[pos].num_to_draw + 1]) }
      colon == colon_cells(X_POS, Y_FINISH - (TETRIS_Y_DROP_DEFAULT * SCALE))
      glyphs == UNION { C5_step_cells(num_states[st[1]].num_to_draw, st[1], st[2]) :
                          st \in steps }
  IN  /\ \A c \in colon : bitmap[c] = IF show_colon THEN COLOR_WHITE ELSE COLOR_BLACK
      /\ \A c \in Cells \ colon :
           IF c \in glyphs
           THEN \E st \in steps :
                  /\ c \in C5_step_cells(num_states[st[1]].num_to_draw, st[1], st[2])
                  /\ bitmap[c] = NUMBERS[num_states[st[1]].num_to_draw + 1][st[2]][2]
           ELSE bitmap[c] = COLOR_BLACK

\* C5 as stated: once set_time has assigned fresh digits to all four slots,
\* after fall_stop_max compositor passes every slot has landed and the frame
\* shows the glyphs.
C5_AsStated ==
  (ticks >= 0 /\ ticks >= C5_fall_stop_max) => (C5_all_landed /\ C5_frame_is_glyphs)

\* C5, amended: once set_time has assigned fresh digits to all four slots and
\* no other set_time follows, every slot has landed after exactly
\* max over the slots of the sum over the steps of the slot's digit of
\* (y_stop + 1) compositor passes, and not before; from that pass on the frame
\* shows, for each slot, exactly the steps of its digit's script at their
\* resting rows with their final rotations at the slot's column.
C5_LandsAfterScript ==
  ticks >= 0 =>
    /\ ticks <= C5_landing_ticks
    /\ C5_all_landed <=> ticks = C5_landing_ticks
    /\ (C5_all_landed /\ obs.step = "frame") => C5_frame_is_glyphs

\* "07:45" has landed: the pass that drew the last row of the last step.
C5_Witness ==
  /\ obs.step = "frame"
  /\ ~finished_animating
  /\ [pos \in 0 .. 3 |-> num_states[pos].num_to_draw] = [pos \in 0 .. 3 |-> <<0, 7, 4, 5>>[pos + 1]]
  /\ C5_all_landed
  /\ ticks = 161

\* The paint operations of a slot if it shows a digit, none if it does not.
C9_slot_ops(state) ==
  IF state.num_to_draw \in Digits
  THEN slot_ops(state, X_POS, Y_FINISH - (TETRIS_Y_DROP_DEFAULT * SCALE))
  ELSE << >>

\* The paint operations of the slots showing a digit, then the separator.
C9_digit_ops(states, colon) ==
  C9_slot_ops(states[0]) \o C9_slot_ops(states[1]) \o C9_slot_ops(states[2])
  \o C9_slot_ops(states[3])
  \o (IF colon
      THEN << <<colon_cells(X_POS, Y_FINISH - (TETRIS_Y_DROP_DEFAULT * SCALE)),
                COLOR_WHITE>> >>
      ELSE << >>)

\* C9: set_time gives every slot whose character is not a digit, or lies past
\* the end of the string once the colons are removed, the digit -1 and does
\* not raise; a compositor pass leaves the state of every slot with digit -1
\* as it was and composes the frame that the slots showing a digit and the
\* separator paint, no cell more, does not raise, and moves every digit slot
\* that is still falling on.
C9_BlankSlots ==
  [][/\ \A time_str \in TimeStrs, force_refresh \in BOOLEAN :
          SetTime(time_str, force_refresh) =>
            /\ raised' = "none"
            /\ \A pos \in 0 .. 3 :
                 \/ /\ pos < Len(strip_colons(time_str))
                    /\ strip_colons(time_str)[pos + 1] \in DigitChars
                 \/ num_states'[pos].num_to_draw = -1
     /\ (pc = "harness" /\ obs'.step = "frame") =>
            /\ raised' = "none"
            /\ \A pos \in Slots :
                 \/ num_states[pos].num_to_draw # -1
                 \/ num_states'[pos] = num_states[pos]
            /\ \A pos \in 0 .. 3 :
                 \/ num_states[pos].num_to_draw \notin Digits
                 \/ num_states[pos].blockindex >= Len(NUMBERS[num_states[pos].num_to_draw + 1])
                 \/ num_states'[pos] # num_states[pos]
            /\ current_ampm = "" => bitmap' = compose(C9_digit_ops(num_states, show_colon))]_vars

\* set_time(" x:7") made slots 0, 1 and 3 blank (a space, a letter, the end of
\* the string), and passes have drawn slot 2 part of its way.
C9_Witness ==
  /\ obs.step = "frame"
  /\ raised = "none"
  /\ \A pos \in {0, 1, 3} :
       /\ num_states[pos].num_to_draw = -1
       /\ num_states[pos].x_shift = x_offset(pos)
       /\ num_states[pos].fallindex = 0
       /\ num_states[pos].blockindex = 0
  /\ num_states[2].num_to_draw = 7
  /\ num_states[2].blockindex > 0
  /\ \E c \in Cells : bitmap[c] = 2

\* A step of the loop of run that follows an earlier one in the same minute.
C6_same_minute_tick ==
  /\ pc = "loop"
  /\ rtc' = rtc
  /\ last_minute # -1
  /\ rtc.tm_min = last_minute
  /\ ~FORCE_REFRESH

\* The step left every cell outside the two dots of the separator as it was.
C6_digits_unchanged ==
  \A c \in Cells \ colon_cells(X_POS, Y_FINISH - (TETRIS_Y_DROP_DEFAULT * SCALE)) :
    bitmap'[c] = bitmap[c]

\* C6 as stated: with FORCE_REFRESH off, an iteration of the loop of run that
\* follows another in the same minute leaves every cell but those of the
\* separator with the value it had after the earlier one.
C6_AsStated == [][C6_same_minute_tick => C6_digits_unchanged]_vars

\* C6, amended: with FORCE_REFRESH off, an iteration of the loop of run that
\* follows another in the same minute, the earlier one having left the
\* animation finished, leaves every cell but those of the separator with the
\* value it had after the earlier one.
C6_SameMinuteAtRest ==
  [][(C6_same_minute_tick /\ finished_animating) => C6_digits_unchanged]_vars

\* With FORCE_REFRESH off and the digits at rest on the display, an iteration
\* in an unchanged minute has just blinked the separator off and drawn
\* nothing else.
C6_Witness ==
  /\ ~FORCE_REFRESH
  /\ obs.step = "tick"
  /\ ~obs.set_time
  /\ ~obs.composed
  /\ obs.colon_only
  /\ finished_animating
  /\ ~show_colon
  /\ rtc.tm_min = last_minute
  /\ \A c \in colon_cells(X_POS, Y_FINISH - (TETRIS_Y_DROP_DEFAULT * SCALE)) :
       bitmap[c] = COLOR_BLACK
  /\ \E c \in Cells : bitmap[c] # COLOR_BLACK

\* C7: a fetch attempt of sync_time_with_retry that fails leaves the system
\* clock as it is and lets no exception out; the attempt that uses up
\* max_retries ends the call with False, the clock never written by it, and
\* control back in the loop of run (pc = "loop" is all its next iteration
\* needs).
C7_AllAttemptsFail ==
  /\ [](sync.result = "False" =>
          /\ pc = "loop"
          /\ raised = "none"
          /\ sync.rtc_writes = 0
          /\ sync.fetches = sync.max_retries)
  /\ [][(sync'.fetches = sync.fetches + 1 /\ sync'.result # "True") =>
          /\ rtc' = rtc
          /\ raised' = "none"
          /\ pc' \in {"fetch", "loop"}
          /\ sync'.rtc_writes = 0]_vars

\* The startup sync has failed TIME_SYNC_RETRIES times and returned False.
C7_Witness ==
  /\ sync.caller = "startup"
  /\ sync.result = "False"
  /\ sync.fetches = TIME_SYNC_RETRIES
  /\ pc = "loop"
  /\ raised = "none"

\* C8 as stated: reconnect_wifi is called on one iteration of the loop of run
\* per calendar day at most.
C8_OncePerDay == \A day \in 1 .. MaxDay : fired[day] <= 1

\* C10: a call of sync_time_with_retry makes at most max_retries fetch
\* attempts; it has slept retry_delay once per failed attempt but the last
\* (the total is retry_delay times that number); it attempts nothing after a
\* success and returns False when max_retries attempts have failed; while it
\* runs another attempt can be made, and every attempt either ends the call or
\* uses up one of the max_retries, so that every call returns True or False;
\* the hourly call has max_retries = 1 and retry_delay = 0 and never sleeps,
\* the startup and the daily call have the configured TIME_SYNC_RETRIES and
\* TIME_SYNC_RETRY_DELAY.
C10_BoundedRetries ==
  /\ [](/\ sync.fetches <= sync.max_retries
        /\ sync.attempt <= sync.max_retries
        /\ sync.slept = sync.sleeps * sync.retry_delay
        /\ pc = "fetch" <=> sync.result = "running"
        /\ sync.result = "running" =>
             /\ sync.attempt < sync.max_retries
             /\ sync.fetches = sync.attempt
             /\ sync.sleeps = sync.fetches
             /\ ENABLED SyncAttempt
        /\ sync.result = "True" =>
             /\ sync.sleeps = sync.fetches - 1
             /\ sync.rtc_writes = 1
        /\ sync.result = "False" =>
             /\ sync.fetches = sync.max_retries
             /\ sync.sleeps = sync.max_retries - 1
        /\ sync.caller = "hourly" =>
             /\ sync.max_retries = 1
             /\ sync.retry_delay = 0
             /\ sync.sleeps = 0
             /\ sync.slept = 0
        /\ sync.caller \in {"startup", "daily"} =>
             /\ sync.max_retries = TIME_SYNC_RETRIES
             /\ sync.retry_delay = TIME_SYNC_RETRY_DELAY)
  /\ [][(sync.result = "running" /\ sync' # sync) =>
          \/ sync'.result \in {"True", "False"}
          \/ /\ sync'.result = "running"
             /\ sync'.max_retries = sync.max_retries
             /\ sync'.attempt = sync.attempt + 1]_vars
  /\ (sync.result = "running") ~> (sync.result \in {"True", "False"})

\* The daily call has just succeeded on its last attempt, after two failures
\* and two sleeps of TIME_SYNC_RETRY_DELAY.
C10_Witness ==
  /\ sync.caller = "daily"
  /\ sync.result = "True"
  /\ sync.fetches = TIME_SYNC_RETRIES
  /\ sync.sleeps = TIME_SYNC_RETRIES - 1
  /\ sync.slept = (TIME_SYNC_RETRIES - 1) * TIME_SYNC_RETRY_DELAY

\* C11: a construction in which the display does not come up, or the SSID or
\* the password is missing, raises and ends in the idle loop of the entry
\* point; in the idle loop the exception is the one reported, run has not been
\* entered (its locals, the sync call and the frame buffer are as the
\* construction left them), the loop can always go round again, and no step
\* leaves it.
C11_FatalStartup ==
  /\ []((obs.step = "construct" /\ obs.failed \in {"display", "ssid", "password"}) =>
          /\ pc = "halt"
          /\ raised # "none")
  /\ [](pc = "halt" =>
          /\ raised # "none"
          /\ sync = NoSync
          /\ last_minute = -1
          /\ last_second = -1
          /\ finished_animating
          /\ bitmap = new_bitmap
          /\ ENABLED Halt)
  /\ [][pc = "halt" =>
          /\ pc' = "halt"
          /\ raised' = raised
          /\ UNCHANGED <<anim_vars, run_vars>>]_vars

\* The credentials were missing: get_credentials raised RuntimeError and the
\* idle loop has gone round.
C11_Witness ==
  /\ pc = "halt"
  /\ obs.step = "halt"
  /\ raised = "RuntimeError"
  /\ sync = NoSync
  /\ last_minute = -1

\* C12 as stated: no failure of a WiFi connect or reconnect or of a time fetch
\* is fatal: whichever of them has failed, no exception is pending and the
\* program is not in the idle loop of the entry point.
C12_AsStated ==
  (obs.failed = "wifi" \/ obs.reconnect = "False" \/ sync.result = "False") =>
    (pc # "halt" /\ raised = "none")

\* C12, amended: once the clock is constructed, no network failure is fatal:
\* a reconnect_wifi whose connect fails returns False, raises nothing, starts
\* no time sync and leaves the loop of run running; a fetch attempt that fails
\* raises nothing and leaves the system clock as it was, and the call that
\* used up its attempts returns False into the loop; no step of run or of the
\* time sync leaves the loop or lets an exception out.  The first connect, made by the construction, is the
\* exception: its failure is re-raised and ends in the idle loop.
C12_NetworkFailureAbsorbed ==
  /\ [](obs.reconnect = "False" =>
          /\ pc = "loop"
          /\ raised = "none"
          /\ sync = NoSync)
  /\ [](sync.result = "False" => (pc = "loop" /\ raised = "none"))
  /\ [](obs.failed = "wifi" => (pc = "halt" /\ raised = "Exception"))
  /\ [][(pc = "loop" \/ pc = "fetch") =>
          /\ pc' \in {"loop", "fetch"}
          /\ raised' = "none"
          /\ ((sync'.fetches = sync.fetches + 1 /\ sync'.result # "True") => rtc' = rtc)]_vars

\* The daily reconnect has just failed: reconnect_wifi returned False, no sync
\* was started and the loop goes on with the clock as it was.
C12_Witness ==
  /\ obs.step = "tick"
  /\ obs.reconnect = "False"
  /\ obs.sync_call = "none"
  /\ pc = "loop"
  /\ raised = "none"
  /\ last_daily_reconnect_day = rtc.tm_mday

\* The step a falling slot is on.
C13_block(state) == NUMBERS[state.num_to_draw + 1][state.blockindex + 1]

\* The slot has a step of its script still falling.
C13_falling(state) ==
  /\ state.num_to_draw \in Digits
  /\ state.blockindex < Len(NUMBERS[state.num_to_draw + 1])

\* The rotation the claim gives: tick * (profile + 1) / fall_stop rounded
\* down, capped at the profile.
C13_claimed(num_rot, fallindex, y_stop) ==
  LET band == (fallindex * (num_rot + 1)) \div y_stop
  IN  IF band < num_rot THEN band ELSE num_rot

\* The rotation of bands whose boundaries are rounded down to whole ticks: the
\* number of boundaries k * fall_stop / (profile + 1), k = 1 .. profile, that
\* the tick has reached.
C13_floored(num_rot, fallindex, y_stop) ==
  Cardinality({ k \in 1 .. num_rot : fallindex >= (k * y_stop) \div (num_rot + 1) })

\* The falling piece of a slot as draw_numbers draws it, with rotation rot.
C13_piece(state, rot) ==
  LET block == C13_block(state)
  IN  << draw_shape(block[1], X_POS + (block[3] * SCALE) + state.x_shift,
                    (Y_FINISH - (TETRIS_Y_DROP_DEFAULT * SCALE))
                      + (state.fallindex * SCALE) - SCALE,
                    rot, SCALE),
         block[2] >>

\* C13 as stated: on every step of every script and every fallindex in
\* 0 .. y_stop the falling piece is drawn with rotation
\* floor(fallindex * (num_rot + 1) / y_stop) capped at num_rot.
C13_AsStated ==
  \A pos \in 0 .. 3 :
    LET state == num_states[pos]
    IN  C13_falling(state) =>
          /\ rotation_at(C13_block(state)[5], state.fallindex, C13_block(state)[4])
               = C13_claimed(C13_block(state)[5], state.fallindex, C13_block(state)[4])
          /\ falling_op(state, X_POS, Y_FINISH - (TETRIS_Y_DROP_DEFAULT * SCALE))
               = C13_piece(state, C13_claimed(C13_block(state)[5], state.fallindex,
                                              C13_block(state)[4]))

\* C13, amended: on every step of every script and every fallindex in
\* 0 .. y_stop the falling piece is drawn with the rotation that is the number
\* of the boundaries floor(k * y_stop / (num_rot + 1)), k = 1 .. num_rot, that
\* fallindex has reached; it is 0 at fallindex 0 and num_rot at fallindex
\* y_stop.
C13_FlooredBands ==
  \A pos \in 0 .. 3 :
    LET state == num_states[pos]
    IN  C13_falling(state) =>
          /\ state.fallindex \in 0 .. C13_block(state)[4]
          /\ rotation_at(C13_block(state)[5], state.fallindex, C13_block(state)[4])
               = C13_floored(C13_block(state)[5], state.fallindex, C13_block(state)[4])
          /\ falling_op(state, X_POS, Y_FINISH - (TETRIS_Y_DROP_DEFAULT * SCALE))
               = C13_piece(state, C13_floored(C13_block(state)[5], state.fallindex,
                                              C13_block(state)[4]))
          /\ rotation_at(C13_block(state)[5], 0, C13_block(state)[4]) = 0
          /\ rotation_at(C13_block(state)[5], C13_block(state)[4], C13_block(state)[4])
               = C13_block(state)[5]

\* The second step of digit 1 (y_stop 15, num_rot 1) is about to be drawn at
\* fallindex 7 = 15 // 2, where the rotation is already 1 while
\* floor(7 * 2 / 15) is 0.
C13_Witness ==
  /\ obs.step = "frame"
  /\ \E pos \in 0 .. 3 :
       /\ num_states[pos].num_to_draw = 1
       /\ num_states[pos].blockindex = 1
       /\ num_states[pos].fallindex = 7
       /\ rotation_at(1, 7, 15) = 1
       /\ C13_claimed(1, 7, 15) = 0

\* The row draw_numbers measures from.
C14_y == Y_FINISH - (TETRIS_Y_DROP_DEFAULT * SCALE)

\* The live falling piece of a slot, if it has one.
C14_live(state) ==
  IF C13_falling(state) THEN << falling_op(state, X_POS, C14_y) >> ELSE << >>

\* The landed steps of a slot a pass paints, first to last: the steps before
\* the falling one, and the falling one too when this pass draws its last row.
C14_landed(state) ==
  IF state.num_to_draw \notin Digits THEN << >>
  ELSE LET n == IF C13_falling(state) /\ state.fallindex = C13_block(state)[4]
                THEN state.blockindex + 1
                ELSE state.blockindex
       IN  [i \in 1 .. n |-> dropped_op(state, i - 1, X_POS, C14_y)]

\* The overlays: the separator when it is shown, then the AM/PM glyph in
\* 12-hour mode.
C14_overlays ==
  (IF show_colon THEN << <<colon_cells(X_POS, C14_y), COLOR_WHITE>> >> ELSE << >>)
  \o (IF TWELVE_HOUR_FORMAT /\ current_ampm # ""
      THEN << <<ampm_cells(current_ampm, AMPM_X, AMPM_Y), COLOR_WHITE>> >>
      ELSE << >>)

\* The order the claim gives: per slot the landed steps, then the live piece;
\* the overlays last.
C14_claimed_order ==
  C14_landed(num_states[0]) \o C14_live(num_states[0])
  \o C14_landed(num_states[1]) \o C14_live(num_states[1])
  \o C14_landed(num_states[2]) \o C14_live(num_states[2])
  \o C14_landed(num_states[3]) \o C14_live(num_states[3])
  \o C14_overlays

\* Per slot the live piece, then the landed steps; the overlays last.
C14_live_first_order ==
  C14_live(num_states[0]) \o C14_landed(num_states[0])
  \o C14_live(num_states[1]) \o C14_landed(num_states[1])
  \o C14_live(num_states[2]) \o C14_landed(num_states[2])
  \o C14_live(num_states[3]) \o C14_landed(num_states[3])
  \o C14_overlays

\* An iteration of the loop of run that composes a frame from the slots as they
\* are (no set_time in it) and does not repaint the separator after it.
C14_compositor_tick ==
  /\ pc = "loop"
  /\ rtc' = rtc
  /\ obs'.step = "tick"
  /\ ~obs'.set_time
  /\ obs'.composed
  /\ ~obs'.colon_only
  /\ ~finished_animating

\* C14 as stated: the paint operations of a compositor tick are, after the
\* clear, per slot the landed steps and then the live falling piece, and the
\* overlays last.
C14_AsStated ==
  [][C14_compositor_tick =>
       frame_ops(num_states, size_of_value, show_colon, current_ampm, TWELVE_HOUR_FORMAT)
         = C14_claimed_order]_vars

\* C14, amended: the paint operations of a compositor tick are, after the
\* clear, per slot the live falling piece and then the landed steps (the step
\* that lands on this tick among them), and the overlays last; the frame is
\* the cleared buffer with these painted in that order, a later one winning
\* each shared cell, so every cell of a shown overlay is white.
C14_LiveThenLanded ==
  [][C14_compositor_tick =>
       LET ops == C14_live_first_order
       IN  /\ frame_ops(num_states, size_of_value, show_colon, current_ampm,
                        TWELVE_HOUR_FORMAT) = ops
           /\ bitmap' = compose(ops)
           /\ \A i \in 1 .. Len(C14_overlays) :
                \A c \in C14_overlays[i][1] : bitmap'[c] = COLOR_WHITE]_vars

\* In 12-hour mode a tick has just composed a frame of a slot with landed
\* steps and a live piece, the separator and the AM glyph.
C14_Witness ==
  /\ obs.step = "tick"
  /\ obs.composed
  /\ ~obs.set_time
  /\ TWELVE_HOUR_FORMAT
  /\ current_ampm = "AM"
  /\ \E pos \in 0 .. 3 :
       /\ C13_falling(num_states[pos])
       /\ num_states[pos].blockindex > 0
       /\ num_states[pos].fallindex > 1
  /\ \A c \in ampm_cells("AM", AMPM_X, AMPM_Y) : bitmap[c] = COLOR_WHITE

\* The horizontal offset the claim gives slot pos.
C15_x(pos) == pos * 7 * SCALE + (IF pos >= 2 THEN 3 * SCALE ELSE 0)

C16_landed(state) ==
  /\ state.num_to_draw \in Digits
  /\ state.blockindex = Len(NUMBERS[state.num_to_draw + 1])

\* C16: counting the draw_numbers calls since set_time assigned fresh digits
\* to the four slots, with no set_time since, each slot has landed exactly
\* when the count has reached the sum over the steps of its digit's script of
\* (y_stop + 1), whatever the other slots show; every call made while a slot
\* is still falling counts one, so all have landed at the largest of the sums
\* and not before; the call that lands the last slot still returns False, and
\* the call after it is the first to return True.
C16_LandingCount ==
  /\ [](ticks >= 0 =>
          /\ \A pos \in 0 .. 3 :
               C16_landed(num_states[pos])
                 <=> (ticks >= C5_script_ticks(num_states[pos].num_to_draw, 1))
          /\ (\A pos \in 0 .. 3 : C16_landed(num_states[pos]))
               <=> (ticks = C5_landing_ticks))
  /\ [][(pc = "harness" /\ obs'.step = "frame" /\ ticks >= 0) =>
          /\ ticks' = IF ticks < C5_landing_ticks THEN ticks + 1 ELSE ticks
          /\ finished_animating' <=> (ticks = C5_landing_ticks)]_vars

\* "07:45": slot 1 landed after 85 calls, slot 2 after 114, slot 3 after 144,
\* slot 0 after 161, and the call after that has returned True.
C16_Witness ==
  /\ obs.step = "frame"
  /\ finished_animating
  /\ [pos \in 0 .. 3 |-> num_states[pos].num_to_draw] = [pos \in 0 .. 3 |-> <<0, 7, 4, 5>>[pos + 1]]
  /\ [pos \in 0 .. 3 |-> C5_script_ticks(num_states[pos].num_to_draw, 1)]
       = [pos \in 0 .. 3 |-> <<161, 85, 114, 144>>[pos + 1]]
  /\ \A pos \in 0 .. 3 : C16_landed(num_states[pos])
  /\ ticks = 161

\* The cells of the step a falling slot is on, at its resting position with
\* rotation rot.
C17_at_rest(state, rot) ==
  LET block == C13_block(state)
  IN  draw_shape(block[1], X_POS + (block[3] * SCALE) + state.x_shift,
                 C14_y + (block[4] * SCALE) - SCALE, rot, SCALE)

\* The cells cs moved up by rows pixel rows, those leaving the display dropped.
C17_raised(cs, rows) == { c - rows * DISPLAY_WIDTH : c \in cs } \cap Cells

\* C17: the falling piece of a slot is drawn, in the colour of its step and
\* with the rotation of its fallindex, (y_stop - fallindex) * SCALE pixel rows
\* above the resting position of the step; at fallindex = y_stop it is drawn
\* with rotation num_rot on exactly the cells, and in the colour, the step is
\* drawn with once it has dropped.
C17_ContinuousLanding ==
  \A pos \in 0 .. 3 :
    LET state == num_states[pos]
        block == C13_block(state)
        rot == rotation_at(block[5], state.fallindex, block[4])
        piece == falling_op(state, X_POS, C14_y)
    IN  C13_falling(state) =>
          /\ state.fallindex <= block[4]
          /\ piece[2] = block[2]
          /\ piece[1] = C17_raised(C17_at_rest(state, rot),
                                   (block[4] - state.fallindex) * SCALE)
          /\ state.fallindex = block[4] =>
               /\ rot = block[5]
               /\ piece[1] = C17_at_rest(state, block[5])
               /\ piece = dropped_op(state, state.blockindex, X_POS, C14_y)

\* A frame has been drawn; one slot is about to draw a step with a rotation
\* profile at fallindex = y_stop, another has a step part-way down.
C17_Witness ==
  /\ obs.step = "frame"
  /\ \E p, q \in 0 .. 3 :
       /\ C13_falling(num_states[p])
       /\ num_states[p].fallindex = C13_block(num_states[p])[4]
       /\ C13_block(num_states[p])[5] > 0
       /\ C13_falling(num_states[q])
       /\ num_states[q].fallindex > 0
       /\ num_states[q].fallindex < C13_block(num_states[q])[4]

\* Every step of the script of a slot's digit at its resting position with
\* its final rotation, first to last.
C18_all_at_rest(state) ==
  [i \in 1 .. Len(NUMBERS[state.num_to_draw + 1]) |->
     LET block == NUMBERS[state.num_to_draw + 1][i]
     IN  << draw_shape(block[1], X_POS + (block[3] * SCALE) + state.x_shift,
                       C14_y + (block[4] * SCALE) - SCALE, block[5], SCALE),
            block[2] >>]

\* The slot went from old to new by one more row of its falling step, or by
\* that step landing.
C18_own_step(old, new) ==
  /\ C13_falling(old)
  /\ new.num_to_draw = old.num_to_draw
  /\ new.x_shift = old.x_shift
  /\ \/ /\ new.blockindex = old.blockindex
        /\ new.fallindex = old.fallindex + 1
     \/ /\ new.blockindex = old.blockindex + 1
        /\ new.fallindex = 0

\* C18: a compositor pass leaves a landed slot (blockindex = length of its
\* script) with its digit, blockindex, fallindex and x_shift as they were, and
\* the operations it paints for the slot are all the steps of the script at
\* their resting positions; a pass changes a slot only by moving that slot's
\* own falling step on; and a landed slot changes only in a set_time call that
\* is forced or gives it another digit.
C18_LandedStable ==
  /\ [][(pc = "harness" /\ obs'.step = "frame") =>
          \A pos \in Slots :
            /\ C16_landed(num_states[pos]) =>
                 /\ num_states'[pos] = num_states[pos]
                 /\ pos < size_of_value =>
                      slot_ops(num_states[pos], X_POS, C14_y)
                        = C18_all_at_rest(num_states[pos])
            /\ \/ num_states'[pos] = num_states[pos]
               \/ C18_own_step(num_states[pos], num_states'[pos])]_vars
  /\ [][\A pos \in Slots :
          (C16_landed(num_states[pos]) /\ num_states'[pos] # num_states[pos]) =>
            /\ obs'.step = "set_time"
            /\ \/ obs'.force_refresh
               \/ num_states'[pos].num_to_draw # num_states[pos].num_to_draw]_vars

\* Slot 0 has landed and another pass has been made over it: it returned
\* all-landed and left the slot where it was.
C18_Witness ==
  /\ obs.step = "frame"
  /\ finished_animating
  /\ C16_landed(num_states[0])
  /\ num_states[0].fallindex = 0
  /\ \E c \in Cells : bitmap[c] = NUMBERS[num_states[0].num_to_draw + 1][1][2]

(***************************************************************************)
(* C19: the minute check and the animation path of run.                    *)
(***************************************************************************)
\* An iteration of the loop of run that ran to its end (the clock is not
\* advanced by it, which tells it from a step of the clock).
C19_tick == pc = "loop" /\ rtc' = rtc /\ obs'.step = "tick"

\* The hour the clock face shows.
C19_hour(now) ==
  IF ~TWELVE_HOUR_FORMAT THEN now.tm_hour
  ELSE IF now.tm_hour = 0 THEN 12
  ELSE IF now.tm_hour > 12 THEN now.tm_hour - 12 ELSE now.tm_hour

\* The digit slot pos shows at the time now (-1: the slot is blank).
C19_digit(now, pos) ==
  CASE pos = 0 -> IF TWELVE_HOUR_FORMAT /\ C19_hour(now) < 10 THEN -1
                  ELSE C19_hour(now) \div 10
    [] pos = 1 -> C19_hour(now) % 10
    [] pos = 2 -> now.tm_min \div 10
    [] pos = 3 -> now.tm_min % 10

\* The compositor passes slot pos still needs before it has landed: the rest
\* of the step that is falling, and the whole of every later step.
C19_remaining(state) ==
  IF ~C13_falling(state) THEN 0
  ELSE (C13_block(state)[4] + 1 - state.fallindex)
       + C5_script_ticks(state.num_to_draw, state.blockindex + 2)

\* C19: an iteration calls set_time exactly when it is the first one or the
\* minute of the clock differs from the last seen minute; the call gives the
\* four slots the digits of the current time, the minute is remembered, and
\* the animation is not complete after that iteration.  An iteration that
\* called set_time or found the animation not complete runs the compositor
\* once and flushes the frame, and one that did neither does not run it.
\* Without a set_time, each compositor pass brings every slot that is still
\* falling one pass nearer to landing and leaves the others alone, and the
\* animation is marked complete by exactly the pass that finds no slot
\* falling: the animation completes after a bounded number of iterations
\* unless the minute changes first.  Outside an animation every slot is at
\* rest.
C19_MinuteStartsAnimation ==
  /\ []((pc \in {"loop", "fetch"} /\ finished_animating) =>
          \A pos \in 0 .. 3 : C19_remaining(num_states[pos]) = 0)
  /\ [][C19_tick =>
          /\ obs'.set_time <=> (last_minute = -1 \/ rtc.tm_min # last_minute)
          /\ last_minute' = rtc.tm_min
          /\ obs'.composed <=> (obs'.set_time \/ ~finished_animating)
          /\ obs'.composed => obs'.flushes >= 1
          /\ obs'.set_time =>
               /\ ~finished_animating'
               /\ \A pos \in 0 .. 3 :
                    num_states'[pos].num_to_draw = C19_digit(rtc, pos)
               /\ \E pos \in 0 .. 3 : C19_remaining(num_states'[pos]) > 0
          /\ (obs'.composed /\ ~obs'.set_time) =>
               /\ \A pos \in 0 .. 3 :
                    C19_remaining(num_states'[pos]) =
                      IF C19_remaining(num_states[pos]) > 0
                      THEN C19_remaining(num_states[pos]) - 1 ELSE 0
               /\ finished_animating' <=>
                    \A pos \in 0 .. 3 : C19_remaining(num_states[pos]) = 0]_vars

\* The animation a later minute started has completed: the loop is past its
\* first minute, shows the digits of the clock, and is at rest.
C19_Witness ==
  /\ obs.step = "tick" /\ obs.composed /\ ~obs.set_time
  /\ finished_animating
  /\ last_minute = DAILY_RECONNECT_MINUTE /\ rtc.tm_min = last_minute
  /\ \A pos \in 0 .. 3 : num_states[pos].num_to_draw = C19_digit(rtc, pos)

(***************************************************************************)
(* C20: the cheap path of run.                                             *)
(***************************************************************************)
\* An iteration of the loop of run that finds the animation complete when it
\* reaches "Update animation": it was complete when the iteration began and
\* the minute check did not restart it.
C20_tick_at_rest ==
  /\ pc = "loop" /\ rtc' = rtc /\ obs'.step = "tick"
  /\ finished_animating
  /\ last_minute # -1 /\ rtc.tm_min = last_minute

\* The iteration observed a second other than the last one it saw.
C20_second_changed == rtc.tm_sec # last_second

\* The buffer with the cells of the separator in the colour of the flag
\* show, and every other cell as it was.
C20_separator_redrawn(show) ==
  [c \in Cells |-> IF c \in colon_cells(X_POS, C14_y)
                   THEN (IF show THEN COLOR_WHITE ELSE COLOR_BLACK)
                   ELSE bitmap[c]]

\* C20: an iteration that finds the animation complete neither clears nor
\* recomposes the frame and leaves the animation complete and the slots as
\* they were; if the second changed it rewrites exactly the cells of the
\* separator, in the colour of the toggled flag, and flushes once; if the
\* second did not change it writes no cell and does not flush.  In every
\* iteration the separator flag is toggled exactly when the second read
\* differs from the last second seen, which is then remembered, and no other
\* step of the program changes the flag.
C20_CheapPath ==
  /\ [][C20_tick_at_rest =>
          /\ ~obs'.composed /\ ~obs'.set_time
          /\ finished_animating' /\ num_states' = num_states
          /\ obs'.colon_only <=> C20_second_changed
          /\ IF C20_second_changed
             THEN /\ bitmap' = C20_separator_redrawn(~show_colon)
                  /\ obs'.flushes = 1
             ELSE /\ bitmap' = bitmap
                  /\ obs'.flushes = 0]_vars
  /\ [][(pc = "loop" /\ rtc' = rtc /\ obs'.step = "tick") =>
          /\ show_colon' = (IF C20_second_changed THEN ~show_colon ELSE show_colon)
          /\ last_second' = rtc.tm_sec]_vars
  /\ [][show_colon' # show_colon =>
          (pc = "loop" /\ rtc' = rtc /\ C20_second_changed)]_vars

\* With the digits at rest, an iteration in a second already seen has just
\* ended: it drew nothing and flushed nothing, and the separator is lit.
C20_Witness ==
  /\ obs.step = "tick"
  /\ ~obs.set_time /\ ~obs.composed /\ ~obs.colon_only
  /\ obs.flushes = 0
  /\ finished_animating
  /\ show_colon
  /\ rtc.tm_sec = last_second /\ rtc.tm_min = last_minute
  /\ \E c \in colon_cells(X_POS, C14_y) : bitmap[c] = COLOR_WHITE

(***************************************************************************)
(* C21: the hourly resync.                                                 *)
(***************************************************************************)
\* An iteration of the loop of run that called sync_time_with_retry from its
\* hourly branch.
C21_hourly_tick ==
  /\ pc = "loop" /\ rtc' = rtc /\ obs'.step = "tick"
  /\ obs'.sync_call = "hourly"

\* The call of sync_time_with_retry that ended last was made by the hourly
\* branch, and no iteration has ended since it returned.
C21_just_resynced == sync.caller = "hourly" /\ sync.result \in {"True", "False"}

\* C21: the hourly resync is attempted only by an iteration that reads minute
\* 0, second 0, and at most once in a wall-clock hour: an iteration that
\* follows the return of an hourly resync with the clock still in the hour
\* (and, the trigger being one instant, the very second) of that resync does
\* not attempt another.  The sampled instants hold one trigger second, so
\* two hourly resyncs of a behaviour are in the same wall-clock hour.
C21_OncePerHour ==
  [][C21_hourly_tick =>
       /\ rtc.tm_min = 0 /\ rtc.tm_sec = 0
       /\ ~C21_just_resynced]_vars

(***************************************************************************)
(* C22: the daily reconnect.                                               *)
(***************************************************************************)
\* An iteration of the loop of run that took the daily branch.
C22_daily_tick ==
  /\ pc = "loop" /\ rtc' = rtc /\ obs'.step = "tick"
  /\ obs'.reconnect # "none"

\* The first reconnect of calendar day d has been made and has failed (the
\* marker holds the day of the last reconnect).
C22_failed_on(d) ==
  /\ obs.step = "tick" /\ obs.reconnect = "False"
  /\ last_daily_reconnect_day = d
  /\ fired[d] = 1

\* C22: an iteration takes the daily branch exactly when it reads the
\* configured hour and minute on a day other than the marker's; it sets the
\* marker to that day whatever reconnect_wifi returns; sync_time_with_retry
\* is called, with its defaults, exactly when reconnect_wifi returned True;
\* the hourly resync is not called by the same iteration; and once a
\* reconnect has failed on a calendar day, reconnect_wifi is not called
\* again by a later iteration on that day.
C22_DailyReconnect ==
  /\ [][(pc = "loop" /\ rtc' = rtc /\ obs'.step = "tick") =>
          /\ obs'.reconnect # "none" <=>
               /\ rtc.tm_hour = DAILY_RECONNECT_HOUR
               /\ rtc.tm_min = DAILY_RECONNECT_MINUTE
               /\ rtc.tm_mday # last_daily_reconnect_day
          /\ obs'.reconnect # "none" =>
               /\ last_daily_reconnect_day' = rtc.tm_mday
               /\ obs'.sync_call = "daily" <=> obs'.reconnect = "True"
               /\ obs'.sync_call # "hourly"
               /\ pc' = IF obs'.reconnect = "True" THEN "fetch" ELSE "loop"]_vars
  /\ \A d \in 1 .. MaxDay : [](C22_failed_on(d) => [](fired[d] <= 1))

(***************************************************************************)
(* C23: the animation-complete flag.                                       *)
(***************************************************************************)
\* Slot pos is blank, or its digit has landed every step of its script.
C23_settled(state) ==
  \/ state.num_to_draw = -1
  \/ C16_landed(state)

\* C23: between the iterations of the loop of run, whenever
\* finished_animating is true every slot is blank or landed; the flag comes
\* from draw_numbers alone: an iteration leaves it true only if it found it
\* true and did not call set_time, or its compositor pass returned True, and
\* that pass returns True exactly when no slot had a step still to fall when
\* it was called, in which case it moves no slot.
C23_CompleteMeansLanded ==
  /\ []((pc \in {"loop", "fetch", "halt"} /\ finished_animating) =>
          \A pos \in 0 .. 3 : C23_settled(num_states[pos]))
  /\ [][(pc = "loop" /\ rtc' = rtc /\ obs'.step = "tick" /\ obs'.composed) =>
          /\ finished_animating' <=>
               (\A pos \in 0 .. 3 : C23_settled(num_states'[pos])
                                    /\ (~obs'.set_time => num_states'[pos] = num_states[pos]))
          /\ finished_animating' => (~obs'.set_time /\ num_states' = num_states)]_vars
  /\ [][(finished_animating' /\ ~finished_animating) =>
          (pc = "loop" /\ obs'.step = "tick" /\ obs'.composed)]_vars

\* In 12-hour mode the compositor pass of an iteration has just returned
\* True: slot 0 is blank and the three digits have landed.
C23_Witness ==
  /\ obs.step = "tick" /\ obs.composed
  /\ finished_animating
  /\ TWELVE_HOUR_FORMAT
  /\ num_states[0].num_to_draw = -1
  /\ \A pos \in 1 .. 3 : C16_landed(num_states[pos])

(***************************************************************************)
(* C24: get_current_time.                                                  *)
(***************************************************************************)
\* The characters of the decimal digits.
C24_chars == <<"0", "1", "2", "3", "4", "5", "6", "7", "8", "9">>

\* The hour of the 12-hour clock face for the hour h of the day.
C24_hour12(h) == IF h = 0 \/ h = 12 THEN 12 ELSE IF h > 12 THEN h - 12 ELSE h

\* The two characters of the minute.
C24_minute(m) == << C24_chars[(m \div 10) + 1], C24_chars[(m % 10) + 1] >>

\* What get_current_time returns in 12-hour mode according to the claim.
C24_twelve(h, m) ==
  << << IF C24_hour12(h) < 10 THEN " " ELSE C24_chars[(C24_hour12(h) \div 10) + 1],
        C24_chars[(C24_hour12(h) % 10) + 1], ":" >> \o C24_minute(m),
     IF h < 12 THEN "AM" ELSE "PM" >>

\* What it returns in 24-hour mode according to the claim.
C24_twentyfour(h, m) ==
  << << C24_chars[(h \div 10) + 1], C24_chars[(h % 10) + 1], ":" >> \o C24_minute(m),
     "" >>

\* C24: for every hour 0..23 and minute 0..59, get_current_time in 12-hour
\* mode returns the hour of the 12-hour face (12 for 0 and 12, h - 12 above
\* 12, so always in 1..12) in two characters with a leading space below 10,
\* a colon and the zero-padded minute, with "AM" exactly when the hour is
\* below 12 and "PM" otherwise; in 24-hour mode the zero-padded hour, a
\* colon and the zero-padded minute, with the empty string.  Fed to set_time
\* by the minute branch of run, the string leaves slot 0 blank exactly in
\* 12-hour mode with a face hour below 10, and the other slots with the
\* digits of the hour and the minute.
C24_TimeFormat ==
  /\ C24_hour12(rtc.tm_hour) \in 1 .. 12
  /\ get_current_time(rtc, TWELVE_HOUR_FORMAT) =
       IF TWELVE_HOUR_FORMAT THEN C24_twelve(rtc.tm_hour, rtc.tm_min)
       ELSE C24_twentyfour(rtc.tm_hour, rtc.tm_min)
  /\ pc = "formatted" =>
       LET shown == IF TWELVE_HOUR_FORMAT THEN C24_hour12(rtc.tm_hour) ELSE rtc.tm_hour
       IN  /\ raised = "none"
           /\ current_ampm = (IF ~TWELVE_HOUR_FORMAT THEN ""
                              ELSE IF rtc.tm_hour < 12 THEN "AM" ELSE "PM")
           /\ num_states[0].num_to_draw =
                (IF TWELVE_HOUR_FORMAT /\ shown < 10 THEN -1 ELSE shown \div 10)
           /\ num_states[1].num_to_draw = shown % 10
           /\ num_states[2].num_to_draw = rtc.tm_min \div 10
           /\ num_states[3].num_to_draw = rtc.tm_min % 10

\* Midnight in 12-hour mode: the slots show 12:00 and the string is "AM".
C24_Witness ==
  /\ pc = "formatted"
  /\ TWELVE_HOUR_FORMAT
  /\ rtc.tm_hour = 0 /\ rtc.tm_min = 0
  /\ num_states[0].num_to_draw = 1
  /\ num_states[1].num_to_draw = 2
  /\ current_ampm = "AM"

(***************************************************************************)
(* C25: every write of a frame stays on the display.                       *)
(***************************************************************************)
\* The pixels <<px, py>> of a piece of type blocktype drawn at (x, y) with
\* rotation rot, before any range check.
C25_pixels(blocktype, x, y, rot) ==
  { << x + (o[1] * SCALE) + dx, y - (o[2] * SCALE) + dy >> :
      o \in shape_offsets(blocktype, rot), dx \in 0 .. SCALE - 1, dy \in 0 .. SCALE - 1 }

\* The pixels of the step of slot state that is falling, at frame fallindex.
C25_falling_pixels(state, fallindex) ==
  LET block == C13_block(state)
  IN  C25_pixels(block[1],
                 X_POS + (block[3] * SCALE) + state.x_shift,
                 C14_y + (fallindex * SCALE) - SCALE,
                 rotation_at(block[5], fallindex, block[4]))

\* The pixels of the landed step i (from 0) of slot state.
C25_landed_pixels(state, i) ==
  LET block == NUMBERS[state.num_to_draw + 1][i + 1]
  IN  C25_pixels(block[1],
                 X_POS + (block[3] * SCALE) + state.x_shift,
                 C14_y + (block[4] * SCALE) - SCALE,
                 block[5])

\* A pixel of the 64 x 32 display, and the cells of the pixels of pts on it.
C25_on_display(p) == 0 <= p[1] /\ p[1] < 64 /\ 0 <= p[2] /\ p[2] < 32
C25_visible(pts) == { p[1] + (64 * p[2]) : p \in { q \in pts : C25_on_display(q) } }

\* A compositor pass of the harness.
C25_frame == pc = "harness" /\ obs'.step = "frame"

\* C25: in a compositor pass, for each digit 0-9 in each of the four slots
\* at every frame of its animation and with either AM/PM string, every paint
\* operation (falling piece, landed steps, separator, AM/PM glyph) writes
\* only cells of the 64 x 32 buffer; the falling piece and each landed step
\* write exactly the pixels of the piece that lie on the display, those
\* above the top edge or right of the right edge being dropped; the two
\* letters of the glyph and the two dots of the separator lie wholly on the
\* display; and the buffer keeps its 2048 cells.
C25_WritesInRange ==
  /\ [](DOMAIN bitmap = 0 .. 2047)
  /\ [][C25_frame =>
          LET ops == frame_ops(num_states, size_of_value, show_colon, current_ampm,
                               TWELVE_HOUR_FORMAT)
          IN  /\ \A i \in 1 .. Len(ops) : ops[i][1] \subseteq 0 .. 2047
              /\ \A pos \in 0 .. 3 :
                   /\ C13_falling(num_states[pos]) =>
                        falling_op(num_states[pos], X_POS, C14_y)[1] =
                          C25_visible(C25_falling_pixels(num_states[pos],
                                                         num_states[pos].fallindex))
                   /\ num_states[pos].num_to_draw \in Digits =>
                        \A i \in 0 .. num_states'[pos].blockindex - 1 :
                          dropped_op(num_states[pos], i, X_POS, C14_y)[1] =
                            C25_visible(C25_landed_pixels(num_states[pos], i))
              /\ Cardinality(colon_cells(X_POS, C14_y)) = 2 * (2 * SCALE) * (2 * SCALE)
              /\ Cardinality(ampm_cells(current_ampm, AMPM_X, AMPM_Y)) = 23]_vars

\* A pass has just drawn the first step of a digit part-way over the top
\* edge: some of its pixels lie above row 0, and those on the display are
\* in the frame in its colour.
C25_Witness ==
  /\ obs.step = "frame"
  /\ \E pos \in 0 .. 3 :
       LET state == num_states[pos]
           drawn == C25_falling_pixels(state, state.fallindex - 1)
       IN  /\ C13_falling(state)
           /\ state.blockindex = 0 /\ state.fallindex > 0
           /\ \E p \in drawn : p[2] < 0
           /\ C25_visible(drawn) # {}
           /\ \A c \in C25_visible(drawn) : bitmap[c] = C13_block(state)[2]

(***************************************************************************)
(* C26: the separator and the blink flag.                                  *)
(***************************************************************************)
\* The cells of the two dots of the separator as run places them: columns
\* 30..33, rows 10..13 and 18..21.
C26_separator ==
  { px + (64 * py) : px \in 30 .. 33, py \in (10 .. 13) \cup (18 .. 21) }

\* Every cell of the separator has the colour col.
C26_separator_is(col) == \A c \in C26_separator : bitmap[c] = col

\* C26: once an iteration of the loop of run has ended, whenever the
\* animation is complete the cells of the separator agree with show_colon:
\* all white when it is true, all background when it is false.
C26_SeparatorAgrees ==
  (pc \in {"loop", "fetch"} /\ last_minute # -1 /\ finished_animating) =>
    C26_separator_is(IF show_colon THEN COLOR_WHITE ELSE COLOR_BLACK)

\* With the digits at rest, an iteration has just toggled the flag on and
\* repainted the separator white by the cheap path.
C26_Witness ==
  /\ obs.step = "tick" /\ obs.colon_only /\ ~obs.composed
  /\ finished_animating
  /\ show_colon
  /\ C26_separator_is(COLOR_WHITE)
  /\ C26_separator = colon_cells(X_POS, C14_y)

(***************************************************************************)
(* C27: settled digits, their neighbours and the separator.                *)
(***************************************************************************)
\* The cells the landed steps of digit d occupy in slot pos.
C27_glyph(d, pos) ==
  UNION { C25_visible(C25_pixels(NUMBERS[d + 1][i][1],
                                 X_POS + (NUMBERS[d + 1][i][3] * SCALE) + x_offset(pos),
                                 C14_y + (NUMBERS[d + 1][i][4] * SCALE) - SCALE,
                                 NUMBERS[d + 1][i][5])) :
            i \in 1 .. Len(NUMBERS[d + 1]) }

\* The glyph of each digit in each slot.
C27_glyphs == [d \in Digits, pos \in 0 .. 3 |-> C27_glyph(d, pos)]

\* Whatever digits the four slots hold, the landed cells of two different
\* slots are disjoint, and those of any slot are disjoint from the separator.
C27_disjoint ==
  /\ \A d \in Digits, e \in Digits, pos \in 0 .. 3, other \in 0 .. 3 :
       pos # other => C27_glyphs[d, pos] \cap C27_glyphs[e, other] = {}
  /\ \A d \in Digits, pos \in 0 .. 3 : C27_glyphs[d, pos] \cap C26_separator = {}

\* C27: for every assignment of digits 0-9 to the four slots the landed
\* cells of one slot are disjoint from those of every other slot and from
\* the cells of the separator; and these are the cells the program paints:
\* a slot that has landed digit d stands at the column set_time gave it, the
\* frame a compositor pass leaves has every cell of the glyph of d in that
\* slot painted, and the separator cells are those draw_colon writes.
C27_SettledDisjoint ==
  /\ C27_disjoint
  /\ C26_separator = colon_cells(X_POS, C14_y)
  /\ \A pos \in 0 .. 3 :
       (obs.step = "frame" /\ C16_landed(num_states[pos])) =>
          /\ num_states[pos].x_shift = x_offset(pos)
          /\ \A c \in C27_glyphs[num_states[pos].num_to_draw, pos] :
               bitmap[c] # COLOR_BLACK

\* The four slots have landed the digit 8: the frame shows its glyph four
\* times around a lit separator.
C27_Witness ==
  /\ obs.step = "frame"
  /\ finished_animating
  /\ \A pos \in 0 .. 3 :
       /\ C16_landed(num_states[pos])
       /\ num_states[pos].num_to_draw = 8
       /\ C27_glyphs[8, pos] # {}
       /\ \A c \in C27_glyphs[8, pos] : bitmap[c] # COLOR_BLACK
  /\ C26_separator_is(COLOR_WHITE)

====
